---- MODULE Spec2Model ----
(***************************************************************************)
(* Client-side batch synchronisation of the AUDEX frontend: the zustand    *)
(* Batch State Container (state/useBatchesStore.ts), the IndexedDB Local   *)
(* Record Store (services/db.ts), the Upload Submitter                     *)
(* (hooks/useBatchUploader.ts), the Event Stream Listener                  *)
(* (hooks/useBatchEvents.ts), the Periodic Hydrator                        *)
(* (hooks/useBatchHydrator.ts) and the Batch Reconciler                    *)
(* (services/batches.ts).  Every async function is cut at its await        *)
(* points; one action is the synchronous code between two awaits.          *)
(***************************************************************************)
EXTENDS Integers, Sequences, FiniteSets, TLC

(* ------------------------------ bounds --------------------------------- *)
MaxBatches == 2
NumEvents == 1
MaxJobs == 2
MaxHandlers == 1
MaxFetches == 2
MaxOps == 3

BatchIds == 1..MaxBatches
EventNos == 1..NumEvents
JobIds == 1..MaxJobs
HandlerIds == 1..MaxHandlers
FetchIds == 1..MaxFetches

(* --------------------------- value encodings --------------------------- *)
\* `undefined` of an optional field
NoError == "none"
NoReport == "none"
NoStatus == "none"
NoProgress == -1
NoHttpStatus == -1
NoBatch == 0

Max(a, b) == IF a >= b THEN a ELSE b

(* ------------------------ utils/errors.ts ------------------------------ *)
\* (the long dash of the three messages is written "-" here)
KNOWN_MESSAGES ==
  [network |-> "Connexion perdue - réessayez lorsque vous êtes en ligne.",
   timeout |-> "Temps de réponse dépassé - réessayez dans un instant.",
   default |-> "Échec de l'envoi - veuillez réessayer."]

\* The words of interest that the lower-cased text of a message contains.
WordsOf(message) ==
  CASE message = "Network Error" -> {"network"}
    [] message = "timeout of 15000ms exceeded" -> {"timeout"}
    [] message = "Temps de réponse dépassé" -> {}
    [] message = "Internal Server Error" -> {}
    [] OTHER -> {}

\* A normalisation that hands the message through as it is.
toFriendlyErrorRaw(message, status) == message

toFriendlyError(message, status) ==
  IF message = "" THEN KNOWN_MESSAGES.default
  ELSE IF status = 0 \/ "network" \in WordsOf(message) THEN KNOWN_MESSAGES.network
  ELSE IF "timeout" \in WordsOf(message) THEN KNOWN_MESSAGES.timeout
  ELSE KNOWN_MESSAGES.default

\* The transport errors an upload request can end with (axios errors).
TransportErrors ==
  { [code |-> "ERR_NETWORK", message |-> "Network Error", data |-> "none", status |-> NoHttpStatus],
    [code |-> "ECONNABORTED", message |-> "timeout of 15000ms exceeded", data |-> "none", status |-> NoHttpStatus],
    [code |-> "ERR_BAD_RESPONSE", message |-> "Request failed with status code 500",
     data |-> "Internal Server Error", status |-> 500] }

parseApiError(error) ==
  [message |-> IF error.data # "none" THEN error.data
               ELSE IF error.code = "ECONNABORTED" THEN "Temps de réponse dépassé"
               ELSE error.message,
   status |-> error.status]

FriendlyOf(error) == toFriendlyError(parseApiError(error).message, parseApiError(error).status)

(* ---------------------- the backend's pipeline ------------------------- *)
\* Event k of a batch's pipeline: its stage code is k, its timestamp and the
\* progress snapshot it carries are fixed per k.
EventTs(k) == k - 1
EventProgress(k) == IF k = NumEvents THEN 100 ELSE 50
\* The timestamp the client clock gives the "client:queued" entry: later than
\* the backend clock's first event, the same as its second.
CreatedTs == 1

\* The id `${batchId}-${code}-${timestamp}` that mapTimeline derives.
DerivedId(b, k) == <<b, "code", k, "ts", EventTs(k)>>
\* The eventId the backend assigns: an opaque string for the odd events, the
\* derived form for the even ones.
ServerEventId(b, k) == IF k % 2 = 1 THEN <<b, "evt", k>> ELSE DerivedId(b, k)
CreatedId(b) == <<b, "created">>

Entry(id, ts, progress) == [id |-> id, ts |-> ts, progress |-> progress]

(* ------------------- state/useBatchesStore.ts -------------------------- *)
ensureProgress(batch) ==
  IF batch.progress = NoProgress THEN [batch EXCEPT !.progress = 0] ELSE batch

\* { ...batch, ...partial }
Spread(batch, partial) ==
  [f \in DOMAIN batch |-> IF f \in DOMAIN partial THEN partial[f] ELSE batch[f]]

FilterOut(bs, id) == SelectSeq(bs, LAMBDA x : x.id # id)

StoreSetBatches(items) == [i \in 1..Len(items) |-> ensureProgress(items[i])]

\* upsertBatch without its filter: the item is put first and nothing leaves.
StoreUpsertBatchNoFilter(bs, item) == <<ensureProgress(item)>> \o bs

StoreUpsertBatch(bs, item) == <<ensureProgress(item)>> \o FilterOut(bs, item.id)

StoreMergeBatch(bs, id, partial) ==
  [i \in 1..Len(bs) |->
     IF bs[i].id = id THEN ensureProgress(Spread(bs[i], partial)) ELSE bs[i]]

\* options?.lastError ?? batch.lastError, options?.report ?? batch.report
StoreUpdateStatus(bs, id, status, lastError, report) ==
  [i \in 1..Len(bs) |->
     IF bs[i].id = id
     THEN [bs[i] EXCEPT
             !.status = status,
             !.lastError = IF lastError # NoError THEN lastError ELSE bs[i].lastError,
             !.report = IF report # NoReport THEN report ELSE bs[i].report]
     ELSE bs[i]]

\* Array.prototype.sort is stable: insertion of each element after the last
\* element whose timestamp is not greater.
RECURSIVE InsertByTs(_, _)
InsertByTs(sorted, e) ==
  IF sorted = <<>> THEN <<e>>
  ELSE IF sorted[Len(sorted)].ts <= e.ts THEN Append(sorted, e)
  ELSE Append(InsertByTs(SubSeq(sorted, 1, Len(sorted) - 1), e), sorted[Len(sorted)])

RECURSIVE SortByTs(_)
SortByTs(s) ==
  IF s = <<>> THEN <<>>
  ELSE InsertByTs(SortByTs(SubSeq(s, 1, Len(s) - 1)), s[Len(s)])

HasId(timeline, id) == \E i \in 1..Len(timeline) : timeline[i].id = id

\* addTimelineEntry without its `exists` test.
TimelineAddNoDedupe(batch, entry) ==
  [batch EXCEPT
     !.timeline = SortByTs(Append(batch.timeline, entry)),
     !.progress = IF entry.progress # NoProgress THEN Max(batch.progress, entry.progress)
                  ELSE batch.progress]

TimelineAdd(batch, entry) ==
  [batch EXCEPT
     !.timeline = IF HasId(batch.timeline, entry.id) THEN batch.timeline
                  ELSE SortByTs(Append(batch.timeline, entry)),
     !.progress = IF entry.progress # NoProgress THEN Max(batch.progress, entry.progress)
                  ELSE batch.progress]

StoreAddTimelineEntry(bs, id, entry) ==
  [i \in 1..Len(bs) |-> IF bs[i].id = id THEN TimelineAdd(bs[i], entry) ELSE bs[i]]

StoreSetProgress(bs, id, progress) ==
  [i \in 1..Len(bs) |->
     IF bs[i].id = id THEN [bs[i] EXCEPT !.progress = Max(progress, bs[i].progress)]
     ELSE bs[i]]

StoreRemoveBatch(bs, id) == FilterOut(bs, id)

Find(bs, id) == SelectSeq(bs, LAMBDA x : x.id = id)
InStore(bs, id) == Find(bs, id) # <<>>
StoreIds(bs) == {bs[i].id : i \in 1..Len(bs)}

(* ------------------------- services/db.ts ------------------------------ *)
\* db.put(BATCH_STORE, record): insert or replace the record keyed by its id.
DbPut(d, record) ==
  [x \in DOMAIN d \cup {record.id} |-> IF x = record.id THEN record ELSE d[x]]

DbDelete(d, id) == [x \in DOMAIN d \ {id} |-> d[x]]

\* loadBatches: every record, most recent first.  Batch ids are handed out
\* in creation order, so the order by createdAt is the order by id.
RECURSIVE DescSeq(_)
DescSeq(S) ==
  IF S = {} THEN <<>>
  ELSE LET m == CHOOSE x \in S : \A y \in S : y <= x IN <<m>> \o DescSeq(S \ {m})

loadBatches(d) == [i \in 1..Cardinality(DOMAIN d) |-> d[DescSeq(DOMAIN d)[i]]]

\* loadFiles: the blobs stored under the batch id, none when there are none.
loadFiles(bl, id) == IF id \in DOMAIN bl THEN bl[id] ELSE {}

\* mergeBatchRecord, first half: db.get and the spread.  The result is the
\* record to put, or <<>> when the batch is unknown (nothing is written).
MergeRead(d, id, partial) ==
  IF id \in DOMAIN d THEN <<Spread(d[id], partial)>> ELSE <<>>

\* mergeBatchRecord, second half: db.put of the record computed from the read.
MergeWrite(d, wr) == IF wr = <<>> THEN d ELSE DbPut(d, wr[1])

\* appendTimelineEntry: one read-modify-write that folds the entry into the
\* stored record by the rules of the in-memory addTimelineEntry.
appendTimelineEntry(d, id, entry) ==
  IF id \in DOMAIN d THEN DbPut(d, TimelineAdd(d[id], entry)) ELSE d

(* -------------------- hooks/useBatchUploader.ts ------------------------ *)
\* createBatch followed by upsertBatch({ ...batch, progress: 0 })
createBatch(id, status) ==
  [id |-> id, status |-> status,
   progress |-> IF status = "completed" THEN 100 ELSE 0,
   lastError |-> NoError, report |-> NoReport,
   timeline |-> <<Entry(CreatedId(id), CreatedTs, 0)>>]

\* The floor that submit and retry raise the progress to.
ProgressFloor == 10

mapServerTimelineEvent(b, k) == Entry(ServerEventId(b, k), EventTs(k), EventProgress(k))

\* The files the user drops for the batch that gets id b: b of them.
FilesOf(b) == {<<"file", b, i>> : i \in 1..b}

(* ---------------------- services/batches.ts ---------------------------- *)
mapTimeline(b, n) == [k \in 1..n |-> Entry(DerivedId(b, k), EventTs(k), EventProgress(k))]

RECURSIVE computeProgress(_)
computeProgress(entries) ==
  IF entries = <<>> THEN 0
  ELSE LET rest == computeProgress(SubSeq(entries, 1, Len(entries) - 1))
           e == entries[Len(entries)]
       IN IF e.progress # NoProgress THEN Max(rest, e.progress) ELSE rest

\* new Map: set() of a known key keeps the key's position and replaces the
\* value; of a new key appends it.
MapSet(seq, entry) ==
  IF HasId(seq, entry.id)
  THEN [i \in 1..Len(seq) |-> IF seq[i].id = entry.id THEN entry ELSE seq[i]]
  ELSE Append(seq, entry)

RECURSIVE MapSetAll(_, _)
MapSetAll(seq, entries) ==
  IF entries = <<>> THEN seq
  ELSE MapSetAll(MapSet(seq, Head(entries)), Tail(entries))

\* mergeTimelines without its sort: the entries in the order of the Map.
mergeTimelinesUnsorted(current, incoming) == MapSetAll(MapSetAll(<<>>, current), incoming)

mergeTimelines(current, incoming) == SortByTs(MapSetAll(MapSetAll(<<>>, current), incoming))

\* What the backend knows of a batch: whether it received it, how many
\* pipeline events it emitted, and its status.
SrvUnknown == [known |-> FALSE, events |-> 0, status |-> "none"]
SrvError == "pipeline error"
ReportOf(snap) == IF snap.status = "completed" THEN "hash" ELSE NoReport

\* A mapServerBatch that takes the id from elsewhere than the batch asked for.
mapServerBatchOtherId(b, snap) ==
  [id |-> (b % MaxBatches) + 1, status |-> snap.status,
   progress |-> computeProgress(mapTimeline(b, snap.events)),
   lastError |-> IF snap.status = "failed" THEN SrvError ELSE NoError,
   report |-> ReportOf(snap),
   timeline |-> mapTimeline(b, snap.events)]

\* mapServerBatch of the detail response taken from the backend state snap:
\* the response to GET /ingestion/batches/b carries batch_id b.
mapServerBatch(b, snap) ==
  [id |-> b, status |-> snap.status,
   progress |-> computeProgress(mapTimeline(b, snap.events)),
   lastError |-> IF snap.status = "failed" THEN SrvError ELSE NoError,
   report |-> ReportOf(snap),
   timeline |-> mapTimeline(b, snap.events)]

\* A merge in which the local status and last error win over the fetched ones.
MergedBatchLocalWins(cur, serverBatch) ==
  [serverBatch EXCEPT
     !.timeline = mergeTimelines(IF cur = <<>> THEN <<>> ELSE cur[1].timeline, serverBatch.timeline),
     !.progress = Max(serverBatch.progress, IF cur = <<>> THEN 0 ELSE cur[1].progress),
     !.status = IF cur = <<>> THEN serverBatch.status ELSE cur[1].status,
     !.lastError = IF cur = <<>> THEN serverBatch.lastError ELSE cur[1].lastError,
     !.report = IF serverBatch.report # NoReport THEN serverBatch.report
                ELSE IF cur = <<>> THEN NoReport ELSE cur[1].report]

\* The merged batch that syncBatchFromServer builds; cur is <<>> or <<current>>.
MergedBatch(cur, serverBatch) ==
  [serverBatch EXCEPT
     !.timeline = mergeTimelines(IF cur = <<>> THEN <<>> ELSE cur[1].timeline, serverBatch.timeline),
     !.progress = Max(serverBatch.progress, IF cur = <<>> THEN 0 ELSE cur[1].progress),
     !.lastError = IF serverBatch.lastError # NoError THEN serverBatch.lastError
                   ELSE IF cur = <<>> THEN NoError ELSE cur[1].lastError,
     !.report = IF serverBatch.report # NoReport THEN serverBatch.report
                ELSE IF cur = <<>> THEN NoReport ELSE cur[1].report]

\* hydrate's filter over the batches of the store.
HydrationTargets(bs, infl) ==
  LET keep == SelectSeq(bs, LAMBDA x : x.status \notin {"failed", "pending"} /\ x.id \notin infl)
  IN [i \in 1..Len(keep) |-> keep[i].id]

(* ============================== state ================================== *)
VARIABLES
  online,     \* navigator.onLine as useOnlineStatus reports it
  batches,    \* Batch State Container: the store's batches array
  db,         \* Local Record Store, object store "batches": id -> record
  blobs,      \* Local Record Store, object store "files": id -> file blobs
  nextId,     \* the next batch id createBatch hands out
  srv,        \* the backend: id -> what it knows of the batch
  jobs,       \* running calls of handleUpload / retryBatch / synchronizePendingBatches
  handlers,   \* running calls of eventSource.onmessage
  hyd,        \* the hydrator effect's current run: its loop position and targets
  inflight,   \* the hydrator's inflight ref
  fetches,    \* running calls of syncBatchFromServer made by the hydrator
  dirty,      \* the store changed since the hydrator effect last ran
  heldOffline, \* batches submitted offline since when the client stayed offline
  owed,       \* batches that were pending in the Local Record Store when connectivity
              \* returned and that the pass started then has not taken up yet
  ops,        \* what the environment did so far: user actions, connectivity changes,
              \* delivered messages, failed requests, hydration fetches
  listener    \* useBatchEvents: the EventSource of the current run of its effect
              \* (source, opened) and the hook's state (connected, available)

vars == <<online, batches, db, blobs, nextId, srv, jobs, handlers, hyd, inflight,
          fetches, dirty, heldOffline, owed, ops, listener>>

\* The listener while `enabled` is false: no EventSource, setConnected(false),
\* setAvailable(true).
ListenerDisabled == [source |-> "none", opened |-> FALSE, connected |-> FALSE, available |-> TRUE]

\* The listener of a run whose EventSource has opened: onopen ran.
ListenerConnected == [source |-> "open", opened |-> TRUE, connected |-> TRUE, available |-> TRUE]

IdleJob ==
  [kind |-> "idle", pc |-> "idle", b |-> NoBatch, onl |-> FALSE, cancel |-> "none",
   files |-> {}, wr |-> <<>>, queue |-> <<>>, tl |-> <<>>, latest |-> NoProgress,
   rstatus |-> NoStatus, rreport |-> NoReport]

\* last: the message the listener applied last, kept to tell a redelivery.
IdleHandler ==
  LET NoMsg == [b |-> NoBatch, status |-> NoStatus, error |-> NoError, report |-> NoReport,
                stage |-> 0]
  IN [pc |-> "idle", m |-> NoMsg, wr |-> <<>>, last |-> NoMsg]

IdleFetch == [pc |-> "idle", b |-> NoBatch, snap |-> SrvUnknown, cur |-> FALSE, wr |-> <<>>]

HydOff == [pc |-> "off", targets |-> <<>>]

Init ==
  /\ online = TRUE
  /\ batches = <<>>
  /\ db = <<>>
  /\ blobs = <<>>
  /\ nextId = 1
  /\ srv = [b \in BatchIds |-> SrvUnknown]
  /\ jobs = [j \in JobIds |-> IdleJob]
  /\ handlers = [h \in HandlerIds |-> IdleHandler]
  /\ hyd = [pc |-> "sleep", targets |-> <<>>]
  /\ inflight = {}
  /\ fetches = [f \in FetchIds |-> IdleFetch]
  /\ dirty = FALSE
  /\ heldOffline = {}
  /\ owed = {}
  /\ ops = 0
  /\ listener = ListenerConnected

\* A new call takes the lowest free slot.
FreeJob(j) == jobs[j].kind = "idle" /\ \A i \in JobIds : i < j => jobs[i].kind # "idle"

(* -------------- the upload sequence of the Upload Submitter ------------ *)
\* The marking without the mergeBatch of mergePersisted: updateStatus and
\* setProgress only.
MarkProcessingStoreNoMerge(bs, id) ==
  StoreSetProgress(StoreUpdateStatus(bs, id, "processing", NoError, NoReport), id, ProgressFloor)

\* try { updateStatus(processing); setProgress(10); mergePersisted(...) } of
\* submitFiles and retryBatch: the store half.
MarkProcessingStore(bs, id) ==
  StoreMergeBatch(
    StoreSetProgress(StoreUpdateStatus(bs, id, "processing", NoError, NoReport), id, ProgressFloor),
    id, [status |-> "processing", progress |-> ProgressFloor])

\* The same step of synchronizePendingBatches: updateStatus only.
MarkProcessingStoreSync(bs, id) == StoreUpdateStatus(bs, id, "processing", NoError, NoReport)

MarkProcessingPartial(kind) ==
  IF kind = "sync" THEN [status |-> "processing"]
  ELSE [status |-> "processing", progress |-> ProgressFloor]

\* updateStatus(status, { lastError, report }) followed, in submitFiles and
\* retryBatch, by the mergeBatch half of mergePersisted.
SetOutcomeStore(bs, kind, id, status, lastError, report) ==
  IF kind = "sync" THEN StoreUpdateStatus(bs, id, status, lastError, report)
  ELSE StoreMergeBatch(StoreUpdateStatus(bs, id, status, lastError, report), id,
                       [status |-> status, lastError |-> lastError, report |-> report])

\* A catch block that marks the batch failed and attaches no message.
SetFailedStoreNoMessage(bs, kind, id, friendly) ==
  IF kind = "sync" THEN StoreUpdateStatus(bs, id, "failed", NoError, NoReport)
  ELSE StoreMergeBatch(StoreUpdateStatus(bs, id, "failed", NoError, NoReport), id,
                       [status |-> "failed"])

\* The catch block writes { status: "failed", lastError: friendly } only.
SetFailedStore(bs, kind, id, friendly) ==
  IF kind = "sync" THEN StoreUpdateStatus(bs, id, "failed", friendly, NoReport)
  ELSE StoreMergeBatch(StoreUpdateStatus(bs, id, "failed", friendly, NoReport), id,
                       [status |-> "failed", lastError |-> friendly])

\* setProgress(latestProgress) followed, in submitFiles and retryBatch, by the
\* mergeBatch half of mergePersisted({ progress: latestProgress }).
SetLatestProgressStore(bs, kind, id, latest) ==
  IF kind = "sync" THEN StoreSetProgress(bs, id, latest)
  ELSE StoreMergeBatch(StoreSetProgress(bs, id, latest), id, [progress |-> latest])

PendingIds(d) ==
  LET all == loadBatches(d)
      keep == SelectSeq(all, LAMBDA x : x.status \in {"pending", "failed"})
  IN [i \in 1..Len(keep) |-> keep[i].id]

\* synchronizePendingBatches that leaves its loop after the first batch.
SyncNextDropsRest(job, queue, d) ==
  IF queue = <<>>
  THEN [job EXCEPT !.kind = "sync", !.pc = "reload", !.b = NoBatch, !.onl = FALSE, !.queue = <<>>,
                   !.wr = <<>>, !.tl = <<>>, !.latest = NoProgress, !.rstatus = NoStatus,
                   !.rreport = NoReport, !.files = {}]
  ELSE [job EXCEPT !.kind = "sync", !.pc = "procW", !.b = Head(queue), !.queue = <<>>,
                   !.onl = FALSE,
                   !.wr = MergeRead(d, Head(queue), MarkProcessingPartial("sync")),
                   !.tl = <<>>, !.latest = NoProgress, !.rstatus = NoStatus, !.rreport = NoReport,
                   !.files = {}]

\* synchronizePendingBatches with one try around the whole loop: the failure
\* of an upload ends the pass.
SyncNextStopsAtFailure(job, queue, d) ==
  IF queue = <<>> \/ (job.wr # <<>> /\ job.wr[1].lastError # NoError)
  THEN [job EXCEPT !.kind = "sync", !.pc = "reload", !.b = NoBatch, !.onl = FALSE, !.queue = <<>>,
                   !.wr = <<>>, !.tl = <<>>, !.latest = NoProgress, !.rstatus = NoStatus,
                   !.rreport = NoReport, !.files = {}]
  ELSE [job EXCEPT !.kind = "sync", !.pc = "procW", !.b = Head(queue), !.queue = Tail(queue),
                   !.onl = FALSE,
                   !.wr = MergeRead(d, Head(queue), MarkProcessingPartial("sync")),
                   !.tl = <<>>, !.latest = NoProgress, !.rstatus = NoStatus, !.rreport = NoReport,
                   !.files = {}]

\* The job record that starts synchronizePendingBatches' loop body for the
\* head of the queue, or goes to the final loadBatches when the queue is empty.
SyncNext(job, queue, d) ==
  IF queue = <<>>
  THEN [job EXCEPT !.kind = "sync", !.pc = "reload", !.b = NoBatch, !.onl = FALSE, !.queue = <<>>, !.wr = <<>>,
                   !.tl = <<>>, !.latest = NoProgress, !.rstatus = NoStatus, !.rreport = NoReport,
                   !.files = {}]
  ELSE [job EXCEPT !.kind = "sync", !.pc = "procW", !.b = Head(queue), !.queue = Tail(queue),
                   !.onl = FALSE,
                   !.wr = MergeRead(d, Head(queue), MarkProcessingPartial("sync")),
                   !.tl = <<>>, !.latest = NoProgress, !.rstatus = NoStatus, !.rreport = NoReport,
                   !.files = {}]

SyncNextStore(bs, queue) ==
  IF queue = <<>> THEN bs ELSE MarkProcessingStoreSync(bs, Head(queue))

\* The try block's tail: updateStatus(normalizedStatus, ...) and the read half
\* of the record merge that follows it.
OutcomeJob(job, d, status, report) ==
  [job EXCEPT !.pc = "finalW", !.tl = <<>>, !.latest = NoProgress,
              !.rstatus = NoStatus, !.rreport = NoReport,
              !.wr = MergeRead(d, job.b, [status |-> status, lastError |-> NoError, report |-> report])]

\* submitFiles that posts the files before it awaits persistBatch.
SubmitStartUploadsFirst(j) ==
  /\ ~dirty
  /\ ops < MaxOps
  /\ ops' = ops + 1
  /\ FreeJob(j)
  /\ nextId <= MaxBatches
  /\ jobs' = [jobs EXCEPT ![j] = [IdleJob EXCEPT !.kind = "submit", !.pc = "await",
                                                !.b = nextId, !.onl = online,
                                                !.files = FilesOf(nextId)]]
  /\ nextId' = nextId + 1
  /\ heldOffline' = IF online THEN heldOffline ELSE heldOffline \cup {nextId}
  /\ UNCHANGED <<listener, online, batches, db, blobs, srv, handlers, hyd, inflight, fetches, dirty, owed>>

\* handleUpload, up to the await of persistBatch: createBatch picks the id and
\* the status from the `online` the callback closed over.
SubmitStart(j) ==
  /\ ~dirty
  /\ ops < MaxOps
  /\ ops' = ops + 1
  /\ FreeJob(j)
  /\ nextId <= MaxBatches
  /\ jobs' = [jobs EXCEPT ![j] = [IdleJob EXCEPT !.kind = "submit", !.pc = "persist",
                                                !.b = nextId, !.onl = online,
                                                !.files = FilesOf(nextId)]]
  /\ nextId' = nextId + 1
  /\ heldOffline' = IF online THEN heldOffline ELSE heldOffline \cup {nextId}
  /\ UNCHANGED <<listener, online, batches, db, blobs, srv, handlers, hyd, inflight, fetches, dirty, owed>>

\* persistBatch's transaction commits; upsertBatch; offline the submit ends and
\* handleUpload goes on to loadBatches; online the batch is marked processing.
SubmitPersisted(j) ==
  /\ ~dirty
  /\ ops' = ops
  /\ jobs[j].kind = "submit" /\ jobs[j].pc = "persist"
  /\ LET job == jobs[j]
         batch == createBatch(job.b, IF job.onl THEN "uploading" ELSE "pending")
         d1 == DbPut(db, batch)
         bs1 == StoreUpsertBatch(batches, [batch EXCEPT !.progress = 0])
     IN /\ blobs' = [x \in DOMAIN blobs \cup {job.b} |-> IF x = job.b THEN job.files ELSE blobs[x]]
        /\ db' = d1
        /\ IF job.onl
           THEN /\ batches' = MarkProcessingStore(bs1, job.b)
                /\ jobs' = [jobs EXCEPT ![j] = [job EXCEPT !.pc = "procW", !.files = {},
                              !.wr = MergeRead(d1, job.b, MarkProcessingPartial("submit"))]]
           ELSE /\ batches' = bs1
                /\ jobs' = [jobs EXCEPT ![j] = [job EXCEPT !.pc = "reload", !.files = {}]]
  /\ dirty' = TRUE
  /\ UNCHANGED <<listener, online, nextId, srv, handlers, hyd, inflight, fetches, heldOffline, owed>>

\* persistBatch that is no transaction: the record is put, then a file put
\* rejects and the record stays.
SubmitPersistFailedKeepsRecord(j) ==
  /\ ~dirty
  /\ ops < MaxOps
  /\ ops' = ops + 1
  /\ jobs[j].kind = "submit" /\ jobs[j].pc = "persist"
  /\ db' = DbPut(db, createBatch(jobs[j].b, IF jobs[j].onl THEN "uploading" ELSE "pending"))
  /\ jobs' = [jobs EXCEPT ![j] = IdleJob]
  /\ UNCHANGED <<listener, online, batches, blobs, nextId, srv, handlers, hyd, inflight, fetches,
                 dirty, heldOffline, owed>>

\* persistBatch rejects (quota, permission): its transaction leaves nothing
\* behind, submitFiles rethrows and handleUpload rejects with the same error.
SubmitPersistFailed(j) ==
  /\ ~dirty
  /\ ops < MaxOps
  /\ ops' = ops + 1
  /\ jobs[j].kind = "submit" /\ jobs[j].pc = "persist"
  /\ jobs' = [jobs EXCEPT ![j] = IdleJob]
  /\ UNCHANGED <<listener, online, batches, db, blobs, nextId, srv, handlers, hyd, inflight, fetches,
                 dirty, heldOffline, owed>>

\* retryBatch: getBatch, then the same marking as submit.
Retry(j, b) ==
  /\ ~dirty
  /\ ops < MaxOps
  /\ ops' = ops + 1
  /\ FreeJob(j)
  /\ \E i \in 1..Len(batches) : batches[i].id = b /\ batches[i].status \in {"failed", "pending"}
  /\ b \in DOMAIN db
  /\ batches' = MarkProcessingStore(batches, b)
  /\ jobs' = [jobs EXCEPT ![j] = [IdleJob EXCEPT !.kind = "retry", !.pc = "procW", !.b = b,
                                    !.wr = MergeRead(db, b, MarkProcessingPartial("retry"))]]
  /\ dirty' = TRUE
  /\ UNCHANGED <<listener, online, db, blobs, nextId, srv, handlers, hyd, inflight, fetches, heldOffline, owed>>

\* The record merge of { status: "processing", ... } is put; uploadToServer
\* loads the blobs and posts them.  The backend learns of the batch when the
\* client is online.
JobProcWrite(j) ==
  /\ ~dirty
  /\ ops' = ops
  /\ jobs[j].pc = "procW"
  /\ db' = MergeWrite(db, jobs[j].wr)
  /\ jobs' = [jobs EXCEPT ![j] = [@ EXCEPT !.pc = "await", !.wr = <<>>,
                                           !.files = loadFiles(blobs, jobs[j].b)]]
  /\ srv' = IF online /\ ~srv[jobs[j].b].known
            THEN [srv EXCEPT ![jobs[j].b] = [known |-> TRUE, events |-> 0, status |-> "processing"]]
            ELSE srv
  /\ UNCHANGED <<listener, online, batches, blobs, nextId, handlers, hyd, inflight, fetches, dirty, heldOffline, owed>>

\* The upload response, built from the backend's snapshot snap, arrives:
\* persistTimelineEvents starts, or, with no timeline in the response, the
\* outcome is applied at once.
ApplyUploadResponse(j, snap) ==
  /\ ~dirty
  /\ ops' = ops
  /\ jobs[j].pc = "await"
  /\ online
  /\ srv[jobs[j].b].known
  /\ LET job == jobs[j]
         tl == [k \in 1..snap.events |-> mapServerTimelineEvent(job.b, k)]
     IN IF tl = <<>>
        THEN /\ batches' = SetOutcomeStore(batches, job.kind, job.b, snap.status, NoError, ReportOf(snap))
             /\ jobs' = [jobs EXCEPT ![j] = OutcomeJob(job, db, snap.status, ReportOf(snap))]
        ELSE /\ batches' = StoreAddTimelineEntry(batches, job.b, tl[1])
             /\ jobs' = [jobs EXCEPT ![j] = [job EXCEPT !.pc = "append", !.tl = tl, !.latest = NoProgress,
                                               !.rstatus = snap.status, !.rreport = ReportOf(snap)]]
  /\ dirty' = TRUE
  /\ UNCHANGED <<listener, online, db, blobs, nextId, srv, handlers, hyd, inflight, fetches, heldOffline, owed>>

\* The response shows the backend as it is when the response arrives.
UploadResponse(j) == ApplyUploadResponse(j, srv[jobs[j].b])

\* One turn of persistTimelineEvents' loop: appendTimelineEntry completes and
\* the next entry is added to the store, or the loop ends.
JobAppend(j) ==
  /\ ~dirty
  /\ ops' = ops
  /\ jobs[j].pc = "append"
  /\ LET job == jobs[j]
         e == Head(job.tl)
         rest == Tail(job.tl)
         d1 == appendTimelineEntry(db, job.b, e)
         latest == IF e.progress # NoProgress THEN Max(job.latest, e.progress) ELSE job.latest
     IN /\ db' = d1
        /\ IF rest # <<>>
           THEN /\ batches' = StoreAddTimelineEntry(batches, job.b, rest[1])
                /\ jobs' = [jobs EXCEPT ![j] = [job EXCEPT !.tl = rest, !.latest = latest]]
           ELSE IF latest >= 0
           THEN /\ batches' = SetLatestProgressStore(batches, job.kind, job.b, latest)
                /\ jobs' = [jobs EXCEPT ![j] = [job EXCEPT !.pc = "progW", !.tl = <<>>, !.latest = latest,
                                                  !.wr = MergeRead(d1, job.b, [progress |-> latest])]]
           ELSE /\ batches' = SetOutcomeStore(batches, job.kind, job.b, job.rstatus, NoError, job.rreport)
                /\ jobs' = [jobs EXCEPT ![j] = OutcomeJob(job, d1, job.rstatus, job.rreport)]
  /\ dirty' = TRUE
  /\ UNCHANGED <<listener, online, blobs, nextId, srv, handlers, hyd, inflight, fetches, heldOffline, owed>>

\* The record merge of { progress: latestProgress } is put; the outcome is applied.
JobProgWrite(j) ==
  /\ ~dirty
  /\ ops' = ops
  /\ jobs[j].pc = "progW"
  /\ LET job == jobs[j]
         d1 == MergeWrite(db, job.wr)
     IN /\ db' = d1
        /\ batches' = SetOutcomeStore(batches, job.kind, job.b, job.rstatus, NoError, job.rreport)
        /\ jobs' = [jobs EXCEPT ![j] = OutcomeJob(job, d1, job.rstatus, job.rreport)]
  /\ dirty' = TRUE
  /\ UNCHANGED <<listener, online, blobs, nextId, srv, handlers, hyd, inflight, fetches, heldOffline, owed>>

\* The request of job j cannot be answered: the client is offline, or the
\* request left while it was and never reached the backend.
Unreachable(j) == ~online \/ ~srv[jobs[j].b].known

\* The upload request rejects: the catch block marks the batch failed.  The
\* errors it can end with: the network error when it cannot be answered,
\* else any, as a fault of the environment.
UploadFail(j) ==
  /\ ~dirty
  /\ jobs[j].pc = "await"
  /\ ops' = IF Unreachable(j) THEN ops ELSE ops + 1
  /\ \E error \in IF Unreachable(j) THEN {e \in TransportErrors : e.code = "ERR_NETWORK"}
                   ELSE {e \in TransportErrors : ops < MaxOps} :
       LET job == jobs[j]
           friendly == FriendlyOf(error)
       IN /\ batches' = SetFailedStore(batches, job.kind, job.b, friendly)
          /\ jobs' = [jobs EXCEPT ![j] = [job EXCEPT !.pc = "finalW",
                        !.wr = MergeRead(db, job.b, [status |-> "failed", lastError |-> friendly])]]
  /\ dirty' = TRUE
  /\ UNCHANGED <<listener, online, db, blobs, nextId, srv, handlers, hyd, inflight, fetches, heldOffline, owed>>

\* The last record merge of the try or catch block is put.  retryBatch ends;
\* handleUpload goes on to synchronizePendingBatches; synchronizePendingBatches
\* goes on to the next batch of its list.
JobFinalWrite(j) ==
  /\ ~dirty
  /\ ops' = ops
  /\ jobs[j].pc = "finalW"
  /\ LET job == jobs[j]
         d1 == MergeWrite(db, job.wr)
         queue == IF job.kind = "submit" THEN PendingIds(d1) ELSE job.queue
     IN /\ db' = d1
        /\ IF job.kind = "retry"
           THEN /\ jobs' = [jobs EXCEPT ![j] = IdleJob]
                /\ UNCHANGED <<batches, dirty>>
           ELSE /\ jobs' = [jobs EXCEPT ![j] = SyncNext(job, queue, d1)]
                /\ batches' = SyncNextStore(batches, queue)
                /\ dirty' = (dirty \/ queue # <<>>)
  /\ owed' = IF jobs'[j].kind = "sync" /\ jobs'[j].cancel # "none" THEN owed \ {jobs'[j].b} ELSE owed
  /\ UNCHANGED <<listener, online, blobs, nextId, srv, handlers, hyd, inflight, fetches, heldOffline>>

\* The caller's setBatches(await loadBatches()), skipped by the reconnect
\* effect when it was cleaned up meanwhile.
JobReload(j) ==
  /\ ~dirty
  /\ ops' = ops
  /\ jobs[j].pc = "reload"
  /\ IF jobs[j].cancel = "cancelled"
     THEN UNCHANGED <<batches, dirty>>
     ELSE batches' = StoreSetBatches(loadBatches(db)) /\ dirty' = TRUE
  /\ jobs' = [jobs EXCEPT ![j] = IdleJob]
  /\ UNCHANGED <<listener, online, db, blobs, nextId, srv, handlers, hyd, inflight, fetches, heldOffline, owed>>

\* triggerSync: the "Synchroniser" button, enabled online with a pending batch
\* and no synchronisation running.
SyncStart(j) ==
  /\ ~dirty
  /\ ops < MaxOps
  /\ ops' = ops + 1
  /\ FreeJob(j)
  /\ online
  /\ \E i \in 1..Len(batches) : batches[i].status \in {"pending", "failed", "uploading"}
  /\ \A i \in JobIds : jobs[i].kind # "sync"
  /\ LET queue == PendingIds(db)
     IN /\ jobs' = [jobs EXCEPT ![j] = SyncNext(IdleJob, queue, db)]
        /\ batches' = SyncNextStore(batches, queue)
        /\ dirty' = (dirty \/ queue # <<>>)
  /\ UNCHANGED <<listener, online, db, blobs, nextId, srv, handlers, hyd, inflight, fetches, heldOffline, owed>>

\* removeBatch whose deleteBatch deletes the record and leaves the files.
RemoveKeepsBlobs(b) ==
  /\ ~dirty
  /\ ops < MaxOps
  /\ ops' = ops + 1
  /\ \E i \in 1..Len(batches) : batches[i].id = b /\ batches[i].status \in {"failed", "pending"}
  /\ db' = DbDelete(db, b)
  /\ batches' = StoreRemoveBatch(batches, b)
  /\ dirty' = TRUE
  /\ UNCHANGED <<listener, online, blobs, nextId, srv, jobs, handlers, hyd, inflight, fetches, heldOffline, owed>>

\* removeBatch: deleteBatch's transaction, then removeFromStore.
Remove(b) ==
  /\ ~dirty
  /\ ops < MaxOps
  /\ ops' = ops + 1
  /\ \E i \in 1..Len(batches) : batches[i].id = b /\ batches[i].status \in {"failed", "pending"}
  /\ db' = DbDelete(db, b)
  /\ blobs' = [x \in DOMAIN blobs \ {b} |-> blobs[x]]
  /\ batches' = StoreRemoveBatch(batches, b)
  /\ dirty' = TRUE
  /\ UNCHANGED <<listener, online, nextId, srv, jobs, handlers, hyd, inflight, fetches, heldOffline, owed>>

(* ---------------------- hooks/useBatchEvents.ts ------------------------ *)
\* The messages the backend has emitted for a batch: one per pipeline event,
\* with or without a status, and one for the pipeline's end.
Emitted ==
  LET StageMessages(b) ==
        { [b |-> b, status |-> st, error |-> NoError, report |-> NoReport, stage |-> k] :
            st \in {NoStatus, "processing"}, k \in 1..srv[b].events }
      FinalMessages(b) ==
        IF srv[b].status = "completed"
        THEN {[b |-> b, status |-> "completed", error |-> NoError, report |-> "hash", stage |-> 0]}
        ELSE IF srv[b].status = "failed"
        THEN {[b |-> b, status |-> "failed", error |-> SrvError, report |-> NoReport, stage |-> 0]}
        ELSE {}
  IN UNION {StageMessages(b) \cup FinalMessages(b) : b \in BatchIds}

\* const updates: Partial<BatchSummary> = {} and the three ifs that fill it.
EventUpdates(m) ==
  LET present == {f \in {"status", "lastError", "report"} :
                    \/ f = "status" /\ m.status # NoStatus
                    \/ f = "lastError" /\ m.error # NoError
                    \/ f = "report" /\ m.report # NoReport}
  IN [f \in present |-> CASE f = "status" -> m.status
                          [] f = "lastError" -> m.error
                          [] f = "report" -> m.report]

StageEntry(m) == Entry(ServerEventId(m.b, m.stage), EventTs(m.stage), EventProgress(m.stage))

\* onmessage up to its first await: mergeBatch and the read of the record
\* merge, or, with no field to update, addTimelineEntry.
Deliver(h, m) ==
  /\ ~dirty
  /\ ops < MaxOps
  /\ ops' = ops + 1
  /\ handlers[h].pc = "idle"
  /\ online
  /\ IF DOMAIN EventUpdates(m) # {}
     THEN /\ batches' = StoreMergeBatch(batches, m.b, EventUpdates(m))
          /\ handlers' = [handlers EXCEPT ![h] =
                            [pc |-> "w", m |-> m, wr |-> MergeRead(db, m.b, EventUpdates(m)),
                             last |-> handlers[h].last]]
     ELSE /\ batches' = StoreAddTimelineEntry(batches, m.b, StageEntry(m))
          /\ handlers' = [handlers EXCEPT ![h] = [pc |-> "a", m |-> m, wr |-> <<>>,
                                                  last |-> handlers[h].last]]
  /\ dirty' = TRUE
  /\ UNCHANGED <<listener, online, db, blobs, nextId, srv, jobs, hyd, inflight, fetches, heldOffline, owed>>

\* The record merge is put; with a stage in the payload addTimelineEntry follows.
HandlerWrite(h) ==
  /\ ~dirty
  /\ ops' = ops
  /\ handlers[h].pc = "w"
  /\ db' = MergeWrite(db, handlers[h].wr)
  /\ IF handlers[h].m.stage # 0
     THEN /\ batches' = StoreAddTimelineEntry(batches, handlers[h].m.b, StageEntry(handlers[h].m))
          /\ handlers' = [handlers EXCEPT ![h] = [@ EXCEPT !.pc = "a", !.wr = <<>>]]
          /\ dirty' = TRUE
     ELSE /\ handlers' = [handlers EXCEPT ![h] = [IdleHandler EXCEPT !.last = handlers[h].m]]
          /\ UNCHANGED <<batches, dirty>>
  /\ UNCHANGED <<listener, online, blobs, nextId, srv, jobs, hyd, inflight, fetches, heldOffline, owed>>

\* appendTimelineEntry completes; setProgress(entry.progress).
HandlerAppend(h) ==
  /\ ~dirty
  /\ ops' = ops
  /\ handlers[h].pc = "a"
  /\ LET m == handlers[h].m
         e == StageEntry(m)
     IN /\ db' = appendTimelineEntry(db, m.b, e)
        /\ IF e.progress # NoProgress
           THEN batches' = StoreSetProgress(batches, m.b, e.progress) /\ dirty' = TRUE
           ELSE UNCHANGED <<batches, dirty>>
  /\ handlers' = [handlers EXCEPT ![h] = [IdleHandler EXCEPT !.last = handlers[h].m]]
  /\ UNCHANGED <<listener, online, blobs, nextId, srv, jobs, hyd, inflight, fetches, heldOffline, owed>>

(* --------------------- hooks/useBatchHydrator.ts ----------------------- *)
Abort(fs) == [f \in FetchIds |-> IF fs[f].pc = "idle" THEN fs[f] ELSE [fs[f] EXCEPT !.cur = FALSE]]

\* A request of the hydrator is either answered (follow) or left without an
\* answer; an answered one takes a slot and counts among the environment's
\* doings, of which `base` are spent.
Follow(targets, fs, base) ==
  {FALSE} \cup {x \in {TRUE} : /\ targets # <<>>
                                /\ base < MaxOps
                                /\ \E f \in FetchIds : fs[f].pc = "idle"}
FetchCost(follow) == IF follow THEN 1 ELSE 0

\* The for loop of hydrate from its head to the next await: with a target
\* left, inflight.add and the fetch of syncBatchFromServer; with none, the
\* loop ends and loop() sets its timer.
LoopHyd(targets) ==
  IF targets = <<>> THEN [pc |-> "sleep", targets |-> <<>>]
  ELSE [pc |-> "wait", targets |-> Tail(targets)]

LoopFetches(targets, fs, follow) ==
  IF ~follow THEN fs
  ELSE LET f == CHOOSE x \in FetchIds :
                    fs[x].pc = "idle" /\ \A i \in FetchIds : i < x => fs[i].pc # "idle"
       IN [fs EXCEPT ![f] = [pc |-> "fly", b |-> Head(targets), snap |-> srv[Head(targets)],
                             cur |-> TRUE, wr |-> <<>>]]

LoopInflight(targets, infl) == IF targets = <<>> THEN infl ELSE infl \cup {Head(targets)}

\* The effect runs again because the store's batches changed: the cleanup of
\* the previous run, then a new run.
HydEffect ==
  /\ dirty
  /\ dirty' = FALSE
  /\ IF online
     THEN LET targets == HydrationTargets(batches, {})
          IN \E follow \in Follow(targets, Abort(fetches), ops) :
               /\ ops' = ops + FetchCost(follow)
               /\ hyd' = LoopHyd(targets)
               /\ fetches' = LoopFetches(targets, Abort(fetches), follow)
               /\ inflight' = LoopInflight(targets, {})
     ELSE /\ ops' = ops
          /\ hyd' = HydOff
          /\ fetches' = Abort(fetches)
          /\ inflight' = {}
  /\ UNCHANGED <<listener, online, batches, db, blobs, nextId, srv, jobs, handlers, heldOffline, owed>>

\* The timer of loop() fires: hydrate again over the same batches.
HydTimer ==
  /\ hyd.pc = "sleep"
  /\ online
  /\ ~dirty
  /\ ops < MaxOps
  /\ LET targets == HydrationTargets(batches, inflight)
     IN /\ targets # <<>>
        /\ ops' = ops + 1
        /\ hyd' = LoopHyd(targets)
        /\ fetches' = LoopFetches(targets, fetches, \E f \in FetchIds : fetches[f].pc = "idle")
        /\ inflight' = LoopInflight(targets, inflight)
  /\ UNCHANGED <<listener, online, batches, db, blobs, nextId, srv, jobs, handlers, dirty, heldOffline, owed>>

\* syncBatchFromServer returns to hydrate: finally inflight.delete, then the
\* next turn of the loop unless the run was aborted.
FetchDone(f, d) ==
  LET fs1 == [fetches EXCEPT ![f] = IdleFetch]
      infl1 == inflight \ {fetches[f].b}
  IN /\ db' = d
     /\ IF fetches[f].cur
        THEN \E follow \in Follow(hyd.targets, fs1, ops) :
               /\ ops' = ops + FetchCost(follow)
               /\ hyd' = LoopHyd(hyd.targets)
               /\ fetches' = LoopFetches(hyd.targets, fs1, follow)
               /\ inflight' = LoopInflight(hyd.targets, infl1)
        ELSE /\ ops' = ops
             /\ hyd' = hyd
             /\ fetches' = fs1
             /\ inflight' = infl1

\* fetchBatchDetails resolves: the merge into the store and the read of the
\* record merge.
HydArrive(f) ==
  /\ ~dirty
  /\ ops' = ops
  /\ fetches[f].pc = "fly"
  /\ fetches[f].snap.known
  /\ LET b == fetches[f].b
         cur == Find(batches, b)
         merged == MergedBatch(cur, mapServerBatch(b, fetches[f].snap))
     IN /\ batches' = IF cur # <<>> THEN StoreMergeBatch(batches, b, merged)
                      ELSE StoreUpsertBatch(batches, merged)
        /\ fetches' = [fetches EXCEPT ![f] = [@ EXCEPT !.pc = "write", !.wr = MergeRead(db, b, merged)]]
  /\ dirty' = TRUE
  /\ UNCHANGED <<listener, online, db, blobs, nextId, srv, jobs, handlers, hyd, inflight, heldOffline, owed>>

\* fetchBatchDetails rejects (the backend does not know the batch, or the
\* request fails): syncBatchFromServer catches and returns undefined.
HydFetchError(f) ==
  /\ ~dirty
  /\ fetches[f].pc = "fly"
  /\ FetchDone(f, db)
  /\ UNCHANGED <<listener, online, batches, blobs, nextId, srv, jobs, handlers, dirty, heldOffline, owed>>

\* The record merge of the merged batch is put.
HydWrite(f) ==
  /\ ~dirty
  /\ fetches[f].pc = "write"
  /\ FetchDone(f, MergeWrite(db, fetches[f].wr))
  /\ UNCHANGED <<listener, online, batches, blobs, nextId, srv, jobs, handlers, dirty, heldOffline, owed>>

(* ------------------------- connectivity -------------------------------- *)
\* Going offline with a hydrator that has no cleanup and no test of `online`:
\* the loop, its controller and the inflight set stay as they are.
GoOfflineKeepsLoop ==
  /\ listener' = ListenerDisabled
  /\ ~dirty
  /\ ops < MaxOps
  /\ ops' = ops + 1
  /\ online
  /\ online' = FALSE
  /\ dirty' = FALSE
  /\ jobs' = [j \in JobIds |-> IF jobs[j].cancel = "armed"
                               THEN [jobs[j] EXCEPT !.cancel = "cancelled"] ELSE jobs[j]]
  /\ UNCHANGED <<batches, db, blobs, nextId, srv, handlers, heldOffline, owed,
                 hyd, fetches, inflight>>

\* `online` turns false: the hydrator effect is cleaned up and clears the
\* inflight set; the reconnect effect of App is cleaned up (cancelled = true);
\* the listener closes its EventSource.
GoOffline ==
  /\ listener' = ListenerDisabled
  /\ ~dirty
  /\ ops < MaxOps
  /\ ops' = ops + 1
  /\ online
  /\ online' = FALSE
  /\ hyd' = HydOff
  /\ fetches' = Abort(fetches)
  /\ inflight' = {}
  /\ dirty' = FALSE
  /\ jobs' = [j \in JobIds |-> IF jobs[j].cancel = "armed"
                               THEN [jobs[j] EXCEPT !.cancel = "cancelled"] ELSE jobs[j]]
  /\ UNCHANGED <<batches, db, blobs, nextId, srv, handlers, heldOffline, owed>>

\* `online` turns true: the hydrator effect starts a run, the reconnect
\* effect of App calls synchronizePendingBatches, and the listener opens a new
\* EventSource, which is taken to open at once (the failures of the
\* connection are those of ListenerSpec).
GoOnline(j) ==
  /\ listener' = ListenerConnected
  /\ ~dirty
  /\ ops < MaxOps
  /\ ~online
  /\ FreeJob(j)
  /\ online' = TRUE
  /\ heldOffline' = {}
  /\ LET targets == HydrationTargets(batches, {})
         queue == PendingIds(db)
     IN /\ \E follow \in Follow(targets, fetches, ops + 1) :
             /\ ops' = ops + 1 + FetchCost(follow)
             /\ hyd' = LoopHyd(targets)
             /\ fetches' = LoopFetches(targets, fetches, follow)
             /\ inflight' = LoopInflight(targets, {})
        /\ jobs' = [jobs EXCEPT ![j] = SyncNext([IdleJob EXCEPT !.cancel = "armed"], queue, db)]
        /\ batches' = SyncNextStore(batches, queue)
        /\ dirty' = (queue # <<>>)
  /\ owed' = (owed \cup {b \in DOMAIN db : db[b].status = "pending"}) \ {jobs'[j].b}
  /\ UNCHANGED <<db, blobs, nextId, srv, handlers>>

(* --------------------------- the backend ------------------------------- *)
ServerAdvance(b) ==
  /\ ~dirty
  /\ ops' = ops
  /\ srv[b].known /\ srv[b].status = "processing" /\ srv[b].events < NumEvents
  /\ srv' = [srv EXCEPT ![b].events = @ + 1]
  /\ UNCHANGED <<listener, online, batches, db, blobs, nextId, jobs, handlers, hyd, inflight, fetches,
                 dirty, heldOffline, owed>>

ServerFinish(b) ==
  /\ ~dirty
  /\ ops' = ops
  /\ srv[b].known /\ srv[b].status = "processing"
  /\ \E outcome \in {"completed", "failed"} :
       /\ outcome = "completed" => srv[b].events = NumEvents
       /\ srv' = [srv EXCEPT ![b].status = outcome]
  /\ UNCHANGED <<listener, online, batches, db, blobs, nextId, jobs, handlers, hyd, inflight, fetches,
                 dirty, heldOffline, owed>>

(* ------------------------------ system --------------------------------- *)
Next ==
  \/ \E j \in JobIds : SubmitStart(j)
  \/ \E j \in JobIds : SubmitPersisted(j)
  \/ \E j \in JobIds : SubmitPersistFailed(j)
  \/ \E j \in JobIds, b \in BatchIds : Retry(j, b)
  \/ \E j \in JobIds : JobProcWrite(j)
  \/ \E j \in JobIds : UploadResponse(j)
  \/ \E j \in JobIds : JobAppend(j)
  \/ \E j \in JobIds : JobProgWrite(j)
  \/ \E j \in JobIds : UploadFail(j)
  \/ \E j \in JobIds : JobFinalWrite(j)
  \/ \E j \in JobIds : JobReload(j)
  \/ \E j \in JobIds : SyncStart(j)
  \/ \E b \in BatchIds : Remove(b)
  \/ \E h \in HandlerIds, m \in Emitted : Deliver(h, m)
  \/ \E h \in HandlerIds : HandlerWrite(h)
  \/ \E h \in HandlerIds : HandlerAppend(h)
  \/ HydEffect
  \/ HydTimer
  \/ \E f \in FetchIds : HydArrive(f)
  \/ \E f \in FetchIds : HydFetchError(f)
  \/ \E f \in FetchIds : HydWrite(f)
  \/ GoOffline
  \/ \E j \in JobIds : GoOnline(j)
  \/ \E b \in BatchIds : ServerAdvance(b)
  \/ \E b \in BatchIds : ServerFinish(b)

Spec == Init /\ [][Next]_vars

(* ------------- the client that starts without connectivity ------------ *)
\* The state after construction when the browser is offline: the hydrator
\* effect clears inflight and returns, the reconnect effect returns at once.
LiveInit ==
  /\ online = FALSE
  /\ batches = <<>>
  /\ db = <<>>
  /\ blobs = <<>>
  /\ nextId = 1
  /\ srv = [b \in BatchIds |-> SrvUnknown]
  /\ jobs = [j \in JobIds |-> IdleJob]
  /\ handlers = [h \in HandlerIds |-> IdleHandler]
  /\ hyd = HydOff
  /\ inflight = {}
  /\ fetches = [f \in FetchIds |-> IdleFetch]
  /\ dirty = FALSE
  /\ heldOffline = {}
  /\ owed = {}
  /\ ops = 0
  /\ listener = ListenerDisabled

\* handleUpload called while the client is offline.
SubmitOffline(j) == ~online /\ SubmitStart(j)

\* The user submits only while offline; everything else is as in Next.
LiveNext ==
  \/ \E j \in JobIds : SubmitOffline(j)
  \/ \E j \in JobIds : SubmitPersisted(j)
  \/ \E j \in JobIds : SubmitPersistFailed(j)
  \/ \E j \in JobIds, b \in BatchIds : Retry(j, b)
  \/ \E j \in JobIds : JobProcWrite(j)
  \/ \E j \in JobIds : UploadResponse(j)
  \/ \E j \in JobIds : JobAppend(j)
  \/ \E j \in JobIds : JobProgWrite(j)
  \/ \E j \in JobIds : UploadFail(j)
  \/ \E j \in JobIds : JobFinalWrite(j)
  \/ \E j \in JobIds : JobReload(j)
  \/ \E j \in JobIds : SyncStart(j)
  \/ \E b \in BatchIds : Remove(b)
  \/ \E h \in HandlerIds, m \in Emitted : Deliver(h, m)
  \/ \E h \in HandlerIds : HandlerWrite(h)
  \/ \E h \in HandlerIds : HandlerAppend(h)
  \/ HydEffect
  \/ \E f \in FetchIds : HydArrive(f)
  \/ \E f \in FetchIds : HydFetchError(f)
  \/ \E f \in FetchIds : HydWrite(f)
  \/ GoOffline
  \/ \E j \in JobIds : GoOnline(j)
  \/ \E b \in BatchIds : ServerAdvance(b)
  \/ \E b \in BatchIds : ServerFinish(b)

\* What the event loop does by itself: React runs the hydrator effect after a
\* change of the store, every running call of the submitter takes its next
\* step when its await settles, and every upload request is answered or fails.
LiveStep ==
  \/ HydEffect
  \/ \E j \in JobIds :
       \/ SubmitPersisted(j)
       \/ JobProcWrite(j)
       \/ UploadResponse(j)
       \/ UploadFail(j)
       \/ JobAppend(j)
       \/ JobProgWrite(j)
       \/ JobFinalWrite(j)
       \/ JobReload(j)

LiveSpec == LiveInit /\ [][LiveNext]_vars /\ WF_vars(LiveStep)

(* ------------- the merge rules on their own (pure functions) ----------- *)
\* addTimelineEntry and the merge of syncBatchFromServer applied to one local
\* batch, whose optional fields and whose incoming values are drawn from
\* small sets.  The batch has the id 1 and is the only one of the store.
MaxStage == 2

\* An insights object is <<its fields>>, `undefined` is <<>>; NoValue is the
\* `undefined` / null of one of its fields, of observations and of ocrTexts.
NoInsights == <<>>
NoValue == "none"

InsightFields ==
  {"geminiStatus", "geminiSummary", "geminiModel", "geminiPromptHash", "risk", "summary", "syncedAt"}

\* Insights objects whose present fields all hold v.
InsightChoices(v) ==
  {NoInsights} \cup
  { <<[f \in InsightFields |-> IF f \in S THEN v ELSE NoValue]>> :
      S \in {{}, {"risk", "syncedAt"}, {"geminiStatus", "summary"}} }

\* incoming ?? current
Coalesce(incoming, current) == IF incoming # NoValue THEN incoming ELSE current

\* A merge of insights in which the fetched object replaces the local one.
mergeInsightsIncomingWins(current, incoming) == incoming

mergeInsights(current, incoming) ==
  IF current = NoInsights /\ incoming = NoInsights THEN NoInsights
  ELSE <<[f \in InsightFields |->
            LET inc == IF incoming = NoInsights THEN NoValue ELSE incoming[1][f]
                cur == IF current = NoInsights THEN NoValue ELSE current[1][f]
            IN IF f = "syncedAt" THEN Coalesce(Coalesce(inc, cur), "now")
               ELSE Coalesce(inc, cur)]>>

\* The merged batch of syncBatchFromServer with the optional fields that the
\* state machine above leaves out.
MergedFull(cur, serverBatch) ==
  [MergedBatch(cur, serverBatch) EXCEPT
     !.insights = mergeInsights(IF cur = <<>> THEN NoInsights ELSE cur[1].insights,
                                serverBatch.insights),
     !.observations = Coalesce(serverBatch.observations,
                               IF cur = <<>> THEN NoValue ELSE cur[1].observations),
     !.ocrTexts = Coalesce(serverBatch.ocrTexts,
                           IF cur = <<>> THEN NoValue ELSE cur[1].ocrTexts)]

\* Stage events of the pipeline of batch 1: event k has a timestamp of its
\* own or shares it with its neighbours (the timestamp is a string the
\* backend sets; nothing makes it unique), and carries a progress or none.
StageEvents ==
  LET StageTs(k) == k \div 3
      StageProgress(k) == CASE k % 3 = 1 -> 50 [] k % 3 = 2 -> NoProgress [] OTHER -> 100
  IN {Entry(<<1, "evt", k>>, StageTs(k), StageProgress(k)) : k \in 1..MaxStage}

\* The optional fields of a batch that are present, of those the merge
\* treats one by one.
PresentChoices ==
  {{}, {"lastError", "observations"}, {"report", "ocrTexts"},
   {"lastError", "report", "observations", "ocrTexts"}}

\* The value of optional field f when it is among the present ones.
Opt(present, f, v) == IF f \in present THEN v ELSE NoValue

\* The local batch: as createBatch made it, with what earlier merges may
\* have left in its optional fields.
LocalBatches ==
  { [id |-> 1, status |-> "processing", progress |-> 0,
     lastError |-> Opt(P, "lastError", "local error"),
     report |-> Opt(P, "report", "local hash"),
     timeline |-> <<Entry(CreatedId(1), CreatedTs, 0)>>,
     insights |-> ins,
     observations |-> Opt(P, "observations", "local observations"),
     ocrTexts |-> Opt(P, "ocrTexts", "local texts")] :
      P \in PresentChoices, ins \in InsightChoices("local") }

\* What mapServerBatch can return for the batch.
FetchedBatches ==
  { [id |-> 1, status |-> IF n = NumEvents THEN "completed" ELSE "processing",
     progress |-> computeProgress(mapTimeline(1, n)),
     lastError |-> Opt(P, "lastError", SrvError),
     report |-> Opt(P, "report", "hash"),
     timeline |-> mapTimeline(1, n),
     insights |-> ins,
     observations |-> Opt(P, "observations", "server observations"),
     ocrTexts |-> Opt(P, "ocrTexts", "server texts")] :
      n \in 0..NumEvents, P \in PresentChoices,
      ins \in InsightChoices("server") \ {<<[f \in InsightFields |-> NoValue]>>} }

MergeInit ==
  /\ batches \in {<<x>> : x \in LocalBatches}
  /\ online = TRUE
  /\ db = <<>>
  /\ blobs = <<>>
  /\ nextId = 2
  /\ srv = [b \in BatchIds |-> SrvUnknown]
  /\ jobs = [j \in JobIds |-> IdleJob]
  /\ handlers = [h \in HandlerIds |-> IdleHandler]
  /\ hyd = [pc |-> "sleep", targets |-> <<>>]
  /\ inflight = {}
  /\ fetches = [f \in FetchIds |-> IdleFetch]
  /\ dirty = FALSE
  /\ heldOffline = {}
  /\ owed = {}
  /\ ops = 0
  /\ listener = ListenerConnected

\* addTimelineEntry(1, e)
MergeAddEntry(e) ==
  /\ batches' = StoreAddTimelineEntry(batches, 1, e)
  /\ UNCHANGED <<listener, online, db, blobs, nextId, srv, jobs, handlers, hyd, inflight, fetches,
                 dirty, heldOffline, owed, ops>>

\* syncBatchFromServer's merge of a fetched batch: store.mergeBatch(1, merged)
MergeHydrate(serverBatch) ==
  /\ batches' = StoreMergeBatch(batches, 1, MergedFull(Find(batches, 1), serverBatch))
  /\ UNCHANGED <<listener, online, db, blobs, nextId, srv, jobs, handlers, hyd, inflight, fetches,
                 dirty, heldOffline, owed, ops>>

MergeNext ==
  \/ \E e \in StageEvents : MergeAddEntry(e)
  \/ \E serverBatch \in FetchedBatches : MergeHydrate(serverBatch)

MergeSpec == MergeInit /\ [][MergeNext]_vars

(* ---------------- the merge of file lists on its own ------------------- *)
\* mergeFiles applied to the file list of one local batch (id 1), as
\* createBatch made it from the dropped files, against the file lists that
\* the detail response can carry.
MaxFiles == 2

FileNames == {"a.pdf", "b.png", "c.jpg"}

\* mapFilesMetadata: the entries have no checksum, storedPath or metadata key.
mapFilesMetadata(files) ==
  [i \in 1..Len(files) |->
     [id |-> <<i - 1, files[i]>>, name |-> files[i], size |-> "size", type |-> "type",
      lastModified |-> "picked"]]

\* ServerFileMetadata: metadata is optional and nullable, the rest is required.
\* response.files ?? []
FileResponses ==
  LET ServerFiles ==
        { [filename |-> n, content_type |-> "type", size_bytes |-> "size",
           checksum_sha256 |-> "sha256", stored_path |-> "path", metadata |-> m] :
            n \in FileNames, m \in {NoValue, "exif"} }
  IN UNION {[1..n -> ServerFiles] : n \in 0..MaxFiles}

\* mapFiles: every key is set, metadata to `undefined` when the response has none.
mapFiles(files, batchId) ==
  [i \in 1..Len(files) |->
     [id |-> <<batchId, "server", i - 1, files[i].filename>>, name |-> files[i].filename,
      size |-> files[i].size_bytes, type |-> files[i].content_type,
      lastModified |-> "now", checksum |-> files[i].checksum_sha256,
      storedPath |-> files[i].stored_path, metadata |-> files[i].metadata]]

\* map.set(file.name, file) on a Map kept as the sequence of its values.
FileMapSet(map, file) ==
  IF \E i \in 1..Len(map) : map[i].name = file.name
  THEN [i \in 1..Len(map) |-> IF map[i].name = file.name THEN file ELSE map[i]]
  ELSE Append(map, file)

\* for (const file of current) map.set(file.name, file)
RECURSIVE SetCurrent(_, _)
SetCurrent(map, current) ==
  IF current = <<>> THEN map
  ELSE SetCurrent(FileMapSet(map, Head(current)), Tail(current))

\* for (const file of incoming) map.set(file.name, { ...(map.get(file.name) ?? {}), ...file })
\* In the spread every key of file, set or `undefined`, takes the place of
\* existing's.
RECURSIVE SetIncoming(_, _)
SetIncoming(map, incoming) ==
  IF incoming = <<>> THEN map
  ELSE LET file == Head(incoming)
           existing == SelectSeq(map, LAMBDA x : x.name = file.name)
           SpreadFile(e, f) ==
             [k \in DOMAIN e \cup DOMAIN f |-> IF k \in DOMAIN f THEN f[k] ELSE e[k]]
           spread == IF existing = <<>> THEN file ELSE SpreadFile(existing[1], file)
       IN SetIncoming(FileMapSet(map, spread), Tail(incoming))

mergeFiles(current, incoming) == SetIncoming(SetCurrent(<<>>, current), incoming)

\* The File objects of one drop, by name: one to MaxFiles of them.
FilesInit ==
  /\ batches \in { <<[id |-> 1, status |-> "processing", progress |-> 0,
                     files |-> mapFilesMetadata(d)]>> :
                       d \in UNION {[1..n -> FileNames] : n \in 1..MaxFiles} }
  /\ online = TRUE
  /\ db = <<>>
  /\ blobs = <<>>
  /\ nextId = 2
  /\ srv = [b \in BatchIds |-> SrvUnknown]
  /\ jobs = [j \in JobIds |-> IdleJob]
  /\ handlers = [h \in HandlerIds |-> IdleHandler]
  /\ hyd = [pc |-> "sleep", targets |-> <<>>]
  /\ inflight = {}
  /\ fetches = [f \in FetchIds |-> IdleFetch]
  /\ dirty = FALSE
  /\ heldOffline = {}
  /\ owed = {}
  /\ ops = 0
  /\ listener = ListenerConnected

\* syncBatchFromServer, the files of its merge: mergedFiles handed to
\* store.mergeBatch(1, merged).
FilesHydrate(files) ==
  /\ batches' = StoreMergeBatch(batches, 1,
                  [files |-> mergeFiles(Find(batches, 1)[1].files, mapFiles(files, 1))])
  /\ UNCHANGED <<listener, online, db, blobs, nextId, srv, jobs, handlers, hyd, inflight, fetches,
                 dirty, heldOffline, owed, ops>>

FilesNext == \E files \in FileResponses : FilesHydrate(files)

FilesSpec == FilesInit /\ [][FilesNext]_vars

(* ---------------- the hydrator and the passing of time ----------------- *)
\* The hydrator alone with one uploaded batch (id 1) and a clock.  In this
\* specification the only doing of the environment that `ops` counts is the
\* passing of time: ops is the number of periods of HYDRATION_INTERVAL_FAST_MS
\* (15 s) elapsed.  The strings of toISOString are those of IsoTimes, one per
\* period.
IsoTimes ==
  <<"00:00:00", "00:00:15", "00:00:30", "00:00:45", "00:01:00", "00:01:15", "00:01:30">>

HYDRATION_INTERVAL_MS == 60000
HYDRATION_INTERVAL_FAST_MS == 15000
FRESH_BATCH_WINDOW_MS == 300000
NaN == -1

\* Date.now() and new Date().toISOString()
DateNow(tick) == tick * HYDRATION_INTERVAL_FAST_MS
toISOString(ms) == IsoTimes[(ms \div HYDRATION_INTERVAL_FAST_MS) + 1]

\* Date.parse
DateParse(s) ==
  IF \E i \in 1..Len(IsoTimes) : IsoTimes[i] = s
  THEN ((CHOOSE i \in 1..Len(IsoTimes) : IsoTimes[i] = s) - 1) * HYDRATION_INTERVAL_FAST_MS
  ELSE NaN

\* The detail responses: the status of the batch, and whether the backend
\* has an analysis status (gemini_status) to report yet.
TimedResponses ==
  { [status |-> s, gemini_status |-> g] :
      s \in {"processing", "completed"}, g \in {NoValue, "done"} }

\* mapServerBatch at the time `now`: the insights object exists when one of
\* its sources is set, and is stamped with the time of the mapping.
mapServerBatchAt(response, now) ==
  [id |-> 1, createdAt |-> toISOString(0), status |-> response.status,
   progress |-> computeProgress(mapTimeline(1, 0)),
   lastError |-> NoError, report |-> NoReport, timeline |-> mapTimeline(1, 0),
   insights |-> IF response.gemini_status # NoValue
                THEN <<[f \in InsightFields |->
                          CASE f = "geminiStatus" -> response.gemini_status
                            [] f = "syncedAt" -> toISOString(now)
                            [] OTHER -> NoValue]>>
                ELSE NoInsights,
   observations |-> NoValue, ocrTexts |-> NoValue,
   syncedAt |-> toISOString(now)]

\* The merged batch of syncBatchFromServer at the time `now`.
MergedAt(cur, serverBatch, now) ==
  [MergedFull(cur, serverBatch) EXCEPT !.syncedAt = toISOString(now)]

\* hydrate's filter at the time `now`, with its staleness test.
TimedTargets(bs, infl, now) ==
  LET stale(x) ==
        \/ x.insights = NoInsights
        \/ x.insights[1].syncedAt = NoValue
        \/ DateParse(x.insights[1].syncedAt) = NaN
        \/ now - DateParse(x.insights[1].syncedAt) > HYDRATION_INTERVAL_MS
      keep == SelectSeq(bs, LAMBDA x : /\ x.status \notin {"failed", "pending"}
                                        /\ x.id \notin infl
                                        /\ stale(x))
  IN [i \in 1..Len(keep) |-> keep[i].id]

pickInterval(bs, now) ==
  IF \E i \in 1..Len(bs) :
       /\ bs[i].status \in {"processing", "uploading"}
       /\ \/ DateParse(bs[i].createdAt) = NaN
          \/ now - DateParse(bs[i].createdAt) < FRESH_BATCH_WINDOW_MS
  THEN HYDRATION_INTERVAL_FAST_MS ELSE HYDRATION_INTERVAL_MS

\* The batch as the upload left it, in the store and in the record store.
TimedBatch ==
  [id |-> 1, createdAt |-> toISOString(0), status |-> "processing", progress |-> ProgressFloor,
   lastError |-> NoError, report |-> NoReport,
   timeline |-> <<Entry(CreatedId(1), CreatedTs, 0)>>,
   insights |-> NoInsights, observations |-> NoValue, ocrTexts |-> NoValue,
   syncedAt |-> NoValue]

\* hyd.pc: "start" when loop() is called, "wait" while hydrate awaits a
\* fetch, "sleep" while the timer of loop() is set (it fires at hyd.due).
TimedInit ==
  /\ batches = <<TimedBatch>>
  /\ db = DbPut(<<>>, TimedBatch)
  /\ ops = 0
  /\ listener = ListenerConnected
  /\ hyd = [pc |-> "start", targets |-> <<>>, due |-> 0]
  /\ inflight = {}
  /\ fetches = [f \in FetchIds |-> IdleFetch]
  /\ online = TRUE
  /\ blobs = <<>>
  /\ nextId = 2
  /\ srv = [b \in BatchIds |-> SrvUnknown]
  /\ jobs = [j \in JobIds |-> IdleJob]
  /\ handlers = [h \in HandlerIds |-> IdleHandler]
  /\ dirty = FALSE
  /\ heldOffline = {}
  /\ owed = {}

\* 15 s pass.  A call of loop() made by the effect or by the timer runs
\* within the period in which it is made.
Tick ==
  /\ ops < Len(IsoTimes) - 1
  /\ hyd.pc # "start"
  /\ ops' = ops + 1
  /\ UNCHANGED <<listener, online, batches, db, blobs, nextId, srv, jobs, handlers, hyd, inflight,
                 fetches, dirty, heldOffline, owed>>

\* The for loop of hydrate from its head to the next await, or to the end of
\* hydrate and the setTimeout of loop().
TimedLoop(targets, infl) ==
  IF targets = <<>>
  THEN /\ hyd' = [pc |-> "sleep", targets |-> <<>>,
                  due |-> DateNow(ops) + pickInterval(batches, DateNow(ops))]
       /\ inflight' = infl
       /\ fetches' = [f \in FetchIds |-> IdleFetch]
  ELSE /\ hyd' = [pc |-> "wait", targets |-> Tail(targets), due |-> 0]
       /\ inflight' = infl \cup {Head(targets)}
       /\ fetches' = [f \in FetchIds |->
                        IF f = 1 THEN [IdleFetch EXCEPT !.pc = "fly", !.b = Head(targets), !.cur = TRUE]
                        ELSE IdleFetch]

\* loop() runs: hydrate computes its targets and starts on them.
TimedHydrate ==
  /\ hyd.pc = "start"
  /\ TimedLoop(TimedTargets(batches, inflight, DateNow(ops)), inflight)
  /\ UNCHANGED <<listener, online, batches, db, blobs, nextId, srv, jobs, handlers, dirty,
                 heldOffline, owed, ops>>

\* The timer of loop() fires.
TimedTimer ==
  /\ hyd.pc = "sleep"
  /\ DateNow(ops) >= hyd.due
  /\ hyd' = [pc |-> "start", targets |-> <<>>, due |-> 0]
  /\ UNCHANGED <<listener, online, batches, db, blobs, nextId, srv, jobs, handlers, inflight, fetches,
                 dirty, heldOffline, owed, ops>>

\* The fetch of syncBatchFromServer succeeds: the merge into the store and
\* into the record.  The store's batches changed, so the effect is cleaned up
\* (abort, inflight.clear) and runs again: loop() is called anew.
TimedArrive(response) ==
  /\ fetches[1].pc = "fly"
  /\ LET merged == MergedAt(Find(batches, 1), mapServerBatchAt(response, DateNow(ops)), DateNow(ops))
     IN /\ batches' = StoreMergeBatch(batches, 1, merged)
        /\ db' = MergeWrite(db, MergeRead(db, 1, merged))
  /\ fetches' = [f \in FetchIds |-> IdleFetch]
  /\ inflight' = {}
  /\ hyd' = [pc |-> "start", targets |-> <<>>, due |-> 0]
  /\ UNCHANGED <<listener, online, blobs, nextId, srv, jobs, handlers, dirty, heldOffline, owed, ops>>

\* The fetch fails: syncBatchFromServer returns undefined, the store is as it
\* was, and hydrate goes on to its next target.
TimedFetchError ==
  /\ fetches[1].pc = "fly"
  /\ TimedLoop(hyd.targets, inflight \ {fetches[1].b})
  /\ UNCHANGED <<listener, online, batches, db, blobs, nextId, srv, jobs, handlers, dirty,
                 heldOffline, owed, ops>>

TimedNext ==
  \/ Tick
  \/ TimedHydrate
  \/ TimedTimer
  \/ \E response \in TimedResponses : TimedArrive(response)
  \/ TimedFetchError

TimedSpec == TimedInit /\ [][TimedNext]_vars

(* ------------- the listener's connection and its messages -------------- *)
\* useBatchEvents with one uploaded batch (id 1): the EventSource opens,
\* fails, drops and is closed, the client goes offline and online, and the
\* stream delivers payloads that are well formed or not.

\* A payload as onmessage sees it: `parsed` is false when JSON.parse throws;
\* b is NoBatch when batchId is missing; stage is 0 when there is no stage
\* descriptor; eventId tells whether the stage descriptor has its eventId.
\* if (payload.reportHash || payload.reportUrl) updates.report =
\* { hash: payload.reportHash, downloadUrl: resolveReportUrl(batchId) }: the
\* descriptor built from a payload that has a reportUrl and no reportHash
\* has the hash undefined.  (A descriptor with its hash is written "hash".)
ReportWithoutHash == "locator"

\* status, error and the report fields as the backend sets them together.
PayloadOutcomes ==
  { [status |-> NoStatus, error |-> NoError, report |-> NoReport],
    [status |-> "processing", error |-> NoError, report |-> NoReport],
    [status |-> "completed", error |-> NoError, report |-> "hash"],
    [status |-> NoStatus, error |-> NoError, report |-> ReportWithoutHash],
    [status |-> "failed", error |-> SrvError, report |-> NoReport] }

WellFormedMessages ==
  { [parsed |-> TRUE, b |-> 1, status |-> o.status, error |-> o.error,
     report |-> o.report, stage |-> k, eventId |-> TRUE] :
      o \in PayloadOutcomes, k \in 0..NumEvents }

MalformedMessages ==
  LET Unparseable ==
        [parsed |-> FALSE, b |-> NoBatch, status |-> NoStatus, error |-> NoError,
         report |-> NoReport, stage |-> 0, eventId |-> FALSE]
      WithoutBatchId ==
        { [parsed |-> TRUE, b |-> NoBatch, status |-> "completed", error |-> NoError,
           report |-> NoReport, stage |-> k, eventId |-> TRUE] : k \in 1..NumEvents }
      WithoutEventId ==
        { [parsed |-> TRUE, b |-> 1, status |-> o.status, error |-> o.error,
           report |-> o.report, stage |-> k, eventId |-> FALSE] :
            o \in PayloadOutcomes, k \in 1..NumEvents }
  IN {Unparseable} \cup WithoutBatchId \cup WithoutEventId

\* const entry = { id: payload.stage.eventId, ... }: built without any test
\* of the descriptor's fields; without eventId the id is undefined (<<>>).
ListenerEntry(m) ==
  IF m.eventId THEN StageEntry(m) ELSE [StageEntry(m) EXCEPT !.id = <<>>]

ListenerInit ==
  /\ online = TRUE
  /\ listener = [source |-> "connecting", opened |-> FALSE, connected |-> FALSE,
                 available |-> TRUE]
  /\ batches = <<[createBatch(1, "processing") EXCEPT !.progress = ProgressFloor]>>
  /\ db = DbPut(<<>>, [createBatch(1, "processing") EXCEPT !.progress = ProgressFloor])
  /\ blobs = <<>>
  /\ nextId = 2
  /\ srv = [b \in BatchIds |-> SrvUnknown]
  /\ jobs = [j \in JobIds |-> IdleJob]
  /\ handlers = [h \in HandlerIds |-> IdleHandler]
  /\ hyd = [pc |-> "sleep", targets |-> <<>>]
  /\ inflight = {}
  /\ fetches = [f \in FetchIds |-> IdleFetch]
  /\ dirty = FALSE
  /\ heldOffline = {}
  /\ owed = {}
  /\ ops = 0

\* eventSource.onopen, at the first connection and after every reconnection.
ListenerOpened ==
  /\ listener.source = "connecting"
  /\ listener' = ListenerConnected
  /\ UNCHANGED <<online, batches, db, blobs, nextId, srv, jobs, handlers, hyd, inflight,
                 fetches, dirty, heldOffline, owed, ops>>

\* eventSource.onerror.  Before the first open the listener closes the
\* EventSource and becomes unavailable; after it the browser either tries to
\* reconnect or gives the connection up, and the listener only clears
\* `connected`.
ListenerErrored ==
  /\ listener.source \in {"connecting", "open"}
  /\ IF ~listener.opened
     THEN listener' = [source |-> "none", opened |-> FALSE, connected |-> FALSE, available |-> FALSE]
     ELSE \E readyState \in {"connecting", "closed"} :
            listener' = [listener EXCEPT !.connected = FALSE, !.source = readyState]
  /\ UNCHANGED <<online, batches, db, blobs, nextId, srv, jobs, handlers, hyd, inflight,
                 fetches, dirty, heldOffline, owed, ops>>

\* `enabled` turns false: the cleanup closes the EventSource, and the new run
\* of the effect calls setConnected(false) and setAvailable(true).
ListenerDisable ==
  /\ online
  /\ online' = FALSE
  /\ listener' = ListenerDisabled
  /\ UNCHANGED <<batches, db, blobs, nextId, srv, jobs, handlers, hyd, inflight,
                 fetches, dirty, heldOffline, owed, ops>>

\* `enabled` turns true: the effect creates a new EventSource.
ListenerEnable ==
  /\ ~online
  /\ online' = TRUE
  /\ listener' = [listener EXCEPT !.source = "connecting", !.opened = FALSE]
  /\ UNCHANGED <<batches, db, blobs, nextId, srv, jobs, handlers, hyd, inflight,
                 fetches, dirty, heldOffline, owed, ops>>

\* eventSource.onmessage from JSON.parse to its end.
ListenerMessage(m) ==
  /\ listener.source = "open"
  /\ IF ~m.parsed \/ m.b = NoBatch
     THEN UNCHANGED <<batches, db>>
     ELSE LET updates == EventUpdates(m)
              merged == IF DOMAIN updates # {} THEN StoreMergeBatch(batches, m.b, updates)
                        ELSE batches
              record == IF DOMAIN updates # {} THEN MergeWrite(db, MergeRead(db, m.b, updates))
                        ELSE db
              entry == ListenerEntry(m)
              added == StoreAddTimelineEntry(merged, m.b, entry)
          IN IF m.stage = 0
             THEN batches' = merged /\ db' = record
             ELSE /\ batches' = IF entry.progress # NoProgress
                                THEN StoreSetProgress(added, m.b, entry.progress) ELSE added
                  /\ db' = appendTimelineEntry(record, m.b, entry)
  /\ UNCHANGED <<online, listener, blobs, nextId, srv, jobs, handlers, hyd, inflight,
                 fetches, dirty, heldOffline, owed, ops>>

ListenerNext ==
  \/ ListenerOpened
  \/ ListenerErrored
  \/ ListenerDisable
  \/ ListenerEnable
  \/ \E m \in MalformedMessages \cup WellFormedMessages : ListenerMessage(m)

ListenerSpec == ListenerInit /\ [][ListenerNext]_vars

(* --------------- the Batch State Container on its own ------------------ *)
\* The actions of useBatchesStore called in any order, with the arguments
\* their callers pass: setBatches gets what loadBatches returns (one record
\* per key of the Local Record Store), upsertBatch a batch of createBatch,
\* the others an id and a value.  The caller's slot keeps the name of the
\* call, the id and, for upsertBatch, the item.
StoreInit ==
  /\ batches = <<>>
  /\ online = TRUE
  /\ db = <<>>
  /\ blobs = <<>>
  /\ nextId = MaxBatches + 1
  /\ srv = [b \in BatchIds |-> SrvUnknown]
  /\ jobs = [j \in JobIds |-> IdleJob]
  /\ handlers = [h \in HandlerIds |-> IdleHandler]
  /\ hyd = [pc |-> "sleep", targets |-> <<>>]
  /\ inflight = {}
  /\ fetches = [f \in FetchIds |-> IdleFetch]
  /\ dirty = FALSE
  /\ heldOffline = {}
  /\ owed = {}
  /\ ops = 0
  /\ listener = ListenerConnected

\* setBatches(items)
CallSetBatches(items) ==
  /\ batches' = StoreSetBatches(items)
  /\ jobs' = [jobs EXCEPT ![1] = [IdleJob EXCEPT !.kind = "setBatches"]]
  /\ UNCHANGED <<listener, online, db, blobs, nextId, srv, handlers, hyd, inflight, fetches,
                 dirty, heldOffline, owed, ops>>

\* upsertBatch(item)
CallUpsertBatch(item) ==
  /\ batches' = StoreUpsertBatch(batches, item)
  /\ jobs' = [jobs EXCEPT ![1] = [IdleJob EXCEPT !.kind = "upsertBatch", !.b = item.id,
                                                !.wr = <<item>>]]
  /\ UNCHANGED <<listener, online, db, blobs, nextId, srv, handlers, hyd, inflight, fetches,
                 dirty, heldOffline, owed, ops>>

\* mergeBatch(id, partial), updateStatus(id, status, options),
\* addTimelineEntry(id, entry), setProgress(id, progress), removeBatch(id)
CallMutation(op, id) ==
  /\ batches' \in
       CASE op = "mergeBatch" ->
              {StoreMergeBatch(batches, id, partial) :
                 partial \in {[status |-> "completed", report |-> "hash"],
                              [id |-> id, status |-> "processing"]}}
         [] op = "updateStatus" ->
              {StoreUpdateStatus(batches, id, "failed", SrvError, NoReport),
               StoreUpdateStatus(batches, id, "processing", NoError, NoReport)}
         [] op = "addTimelineEntry" ->
              {StoreAddTimelineEntry(batches, id, mapServerTimelineEvent(id, k)) :
                 k \in 1..NumEvents}
         [] op = "setProgress" -> {StoreSetProgress(batches, id, ProgressFloor)}
         [] op = "removeBatch" -> {StoreRemoveBatch(batches, id)}
  /\ jobs' = [jobs EXCEPT ![1] = [IdleJob EXCEPT !.kind = op, !.b = id]]
  /\ UNCHANGED <<listener, online, db, blobs, nextId, srv, handlers, hyd, inflight, fetches,
                 dirty, heldOffline, owed, ops>>

StoreNext ==
  LET Loaded == UNION {{loadBatches([b \in S |-> createBatch(b, st[b])]) :
                          st \in [S -> {"pending", "failed"}]} : S \in SUBSET BatchIds}
      Created == {createBatch(b, st) : b \in BatchIds, st \in {"pending", "uploading"}}
  IN \/ \E items \in Loaded : CallSetBatches(items)
     \/ \E item \in Created : CallUpsertBatch(item)
     \/ \E op \in {"mergeBatch", "updateStatus", "addTimelineEntry", "setProgress",
                    "removeBatch"}, id \in BatchIds : CallMutation(op, id)

StoreSpec == StoreInit /\ [][StoreNext]_vars

(* ------------- upload responses that arrive after later news ----------- *)
\* The answer to the request of submitFiles shows the backend as it was when
\* it built the answer, which is no later than the answer's arrival: the
\* batch is new with this request, so every earlier snapshot has the status
\* processing and no more events than the backend has now.  The event
\* stream and the detail requests use other connections and can overtake it.
LateUploadResponse(j) ==
  /\ jobs[j].kind = "submit"
  /\ \E n \in 0..srv[jobs[j].b].events :
       LET snap == [known |-> TRUE, events |-> n, status |-> "processing"]
       IN snap # srv[jobs[j].b] /\ ApplyUploadResponse(j, snap)

StaleNext ==
  \/ Next
  \/ \E j \in JobIds : LateUploadResponse(j)

StaleSpec == Init /\ [][StaleNext]_vars

(* ------- retryBatch and synchronizePendingBatches, one batch, alone ----- *)
\* The two routines run from their first line to their last, with nothing
\* else running, on the one batch (id 1) of both layers, against the answer
\* the upload request gets.

\* The request is answered: no transport error.
NoTransportError == [code |-> "none", message |-> "", data |-> "none", status |-> NoHttpStatus]

\* persistTimelineEvents: addTimelineEntry and appendTimelineEntry for each
\* entry, and the latest progress; st is the store, the records and
\* latestProgress so far.
RECURSIVE persistTimelineEvents(_, _, _)
persistTimelineEvents(st, b, entries) ==
  IF entries = <<>> THEN st
  ELSE LET e == Head(entries)
       IN persistTimelineEvents(
            [store |-> StoreAddTimelineEntry(st.store, b, e),
             db |-> appendTimelineEntry(st.db, b, e),
             latest |-> IF e.progress # NoProgress THEN Max(st.latest, e.progress) ELSE st.latest],
            b, Tail(entries))

\* The try / catch of retryBatch (kind "retry") and the loop body of
\* synchronizePendingBatches (kind "sync") for batch b: the store and the
\* records they leave when the request ends with `error`, or is answered
\* with the backend's snapshot snap.
RunPass(kind, bs, d, b, snap, error) ==
  LET marked == IF kind = "sync" THEN MarkProcessingStoreSync(bs, b) ELSE MarkProcessingStore(bs, b)
      d1 == MergeWrite(d, MergeRead(d, b, MarkProcessingPartial(kind)))
  IN IF error # NoTransportError
     THEN [store |-> SetFailedStore(marked, kind, b, FriendlyOf(error)),
           db |-> MergeWrite(d1, MergeRead(d1, b, [status |-> "failed",
                                                    lastError |-> FriendlyOf(error)]))]
     ELSE LET tl == [k \in 1..snap.events |-> mapServerTimelineEvent(b, k)]
              p == persistTimelineEvents([store |-> marked, db |-> d1, latest |-> NoProgress], b, tl)
              bs2 == IF p.latest >= 0 THEN SetLatestProgressStore(p.store, kind, b, p.latest)
                     ELSE p.store
              d2 == IF p.latest >= 0
                    THEN MergeWrite(p.db, MergeRead(p.db, b, [progress |-> p.latest]))
                    ELSE p.db
          IN [store |-> SetOutcomeStore(bs2, kind, b, snap.status, NoError, ReportOf(snap)),
              db |-> MergeWrite(d2, MergeRead(d2, b, [status |-> snap.status, lastError |-> NoError,
                                                      report |-> ReportOf(snap)]))]

\* The batch as earlier operations left it, the same in both layers: pending
\* after an offline submit; failed after an upload that the backend answered
\* with status failed or that ended with a transport error, or after a
\* detail response with a last_error, with the progress of a submit or retry
\* (the floor) or of a synchronisation (0).
\* The backend has the batch and will answer with one of its snapshots.
PassInit ==
  /\ \E batch \in
         {createBatch(1, "pending")} \cup
         { [createBatch(1, "failed") EXCEPT !.lastError = e, !.progress = p] :
             e \in {NoError, SrvError, KNOWN_MESSAGES.network, KNOWN_MESSAGES.default},
             p \in {0, ProgressFloor} } :
       /\ batches = <<batch>>
       /\ db = DbPut(<<>>, batch)
  /\ \E snap \in { [known |-> TRUE, events |-> n, status |-> s] :
                      n \in 0..NumEvents, s \in {"processing", "completed", "failed"} } :
       /\ snap.status = "completed" => snap.events = NumEvents
       /\ srv = [b \in BatchIds |-> IF b = 1 THEN snap ELSE SrvUnknown]
  /\ online = TRUE
  /\ blobs = [x \in {1} |-> FilesOf(1)]
  /\ nextId = 2
  /\ jobs = [j \in JobIds |-> IdleJob]
  /\ handlers = [h \in HandlerIds |-> IdleHandler]
  /\ hyd = [pc |-> "sleep", targets |-> <<>>]
  /\ inflight = {}
  /\ fetches = [f \in FetchIds |-> IdleFetch]
  /\ dirty = FALSE
  /\ heldOffline = {}
  /\ owed = {}
  /\ ops = 0
  /\ listener = ListenerConnected

\* One of the two routines runs for batch 1 and returns; the call keeps the
\* status of the response it got (none when the request failed).
PassRun(kind, error) ==
  /\ jobs[1].kind = "idle"
  /\ LET run == RunPass(kind, batches, db, 1, srv[1], error)
     IN /\ batches' = run.store
        /\ db' = run.db
  /\ jobs' = [jobs EXCEPT ![1] = [IdleJob EXCEPT !.kind = kind, !.b = 1,
                 !.rstatus = IF error = NoTransportError THEN srv[1].status ELSE NoStatus]]
  /\ UNCHANGED <<listener, online, blobs, nextId, srv, handlers, hyd, inflight, fetches,
                 dirty, heldOffline, owed, ops>>

PassNext == \E kind \in {"retry", "sync"}, error \in TransportErrors \cup {NoTransportError} :
              PassRun(kind, error)

PassSpec == PassInit /\ [][PassNext]_vars

(* ============================== claims ================================= *)
BatchOf(bs, b) == Find(bs, b)[1]

\* The step is the caller's setBatches(await loadBatches()), which reloads the
\* store from the records and is none of the three update channels.
IsReloadStep == \E j \in JobIds : jobs[j].pc = "reload" /\ jobs'[j].pc = "idle"

\* C1: for every batch, the progress held in the Batch State Container never
\* decreases from one state to the next, whichever of the update channels
\* (submit / retry / synchronizePending and their upload responses, event
\* stream messages, hydration merges) makes the step.
C1_ProgressNeverDecreases ==
  [][~IsReloadStep =>
       \A b \in BatchIds :
         (InStore(batches, b) /\ InStore(batches', b))
           => BatchOf(batches', b).progress >= BatchOf(batches, b).progress]_vars

\* C2: at most one hydration fetch per batch id is in flight: no two running
\* calls of syncBatchFromServer made by the hydrator wait for the detail
\* response of the same batch.
C2_OneFetchPerBatch ==
  \A f, g \in FetchIds :
    (f # g /\ fetches[f].pc = "fly" /\ fetches[g].pc = "fly") => fetches[f].b # fetches[g].b

\* C3: in every reachable state no timeline of a batch in the Batch State
\* Container holds two entries with the same event id.
NoDuplicateIds(timeline) ==
  \A i, k \in 1..Len(timeline) : timeline[i].id = timeline[k].id => i = k

C3_NoDuplicateEventIds == \A i \in 1..Len(batches) : NoDuplicateIds(batches[i].timeline)

\* The dedupe acted: the listener added to the store the entry of a stage
\* message that the upload response had already put there and in the record.
C3_Witness ==
  \E h \in HandlerIds, i \in 1..Len(batches) :
    /\ handlers[h].pc = "a"
    /\ batches[i].id = handlers[h].m.b
    /\ HasId(batches[i].timeline, StageEntry(handlers[h].m).id)
    /\ handlers[h].m.b \in DOMAIN db
    /\ HasId(db[handlers[h].m.b].timeline, StageEntry(handlers[h].m).id)
    /\ Len(batches[i].timeline) >= 2

\* The timeline entries of a batch in the store that stand for pipeline event k.
EntriesOfEvent(batch, k) ==
  {i \in 1..Len(batch.timeline) :
     batch.timeline[i].id \in {ServerEventId(batch.id, k), DerivedId(batch.id, k)}}

\* C4: a pipeline event that reached the client through the event stream or
\* the upload response and through a hydration fetch appears exactly once in
\* the batch's timeline: no event has more than one entry.
C4_EventAppearsOnce ==
  \A i \in 1..Len(batches), k \in EventNos : Cardinality(EntriesOfEvent(batches[i], k)) <= 1

\* The step starts the listener on message m, the message it applied last.
IsRedelivery(h) ==
  /\ handlers[h].pc = "idle"
  /\ handlers'[h].pc # "idle"
  /\ handlers'[h].m = handlers[h].last

\* C5: re-applying an event stream message that was already applied, at once
\* or after other merges were applied in between, leaves the batch's status,
\* last error, report, timeline and progress as they were.
C5_RedeliveryIsNoOp ==
  [][\A h \in HandlerIds :
       (IsRedelivery(h) /\ InStore(batches, handlers[h].last.b))
         => BatchOf(batches', handlers[h].last.b) = BatchOf(batches, handlers[h].last.b)]_vars

\* The step applies to the store the detail response of fetch f.
IsHydrationMerge(f) == fetches[f].pc = "fly" /\ fetches'[f].pc = "write"

\* The response of fetch f was taken while the backend was still processing
\* the batch, and the store already holds the final status the backend
\* reached since.
StaleResponse(f) ==
  /\ fetches[f].snap.status = "processing"
  /\ srv[fetches[f].b].status \in {"completed", "failed"}
  /\ InStore(batches, fetches[f].b)
  /\ BatchOf(batches, fetches[f].b).status = srv[fetches[f].b].status

\* C6: a batch the client already knows as completed or failed is not set
\* back to processing by a hydration response that reflects an older state of
\* the backend than the one the client learned.
C6_NoDowngradeByStalePoll ==
  [][\A f \in FetchIds :
       (IsHydrationMerge(f) /\ StaleResponse(f))
         => BatchOf(batches', fetches[f].b).status # "processing"]_vars

\* No call of the submitter, the listener or the hydrator is running.
Quiescent ==
  /\ \A j \in JobIds : jobs[j].kind = "idle"
  /\ \A h \in HandlerIds : handlers[h].pc = "idle"
  /\ \A f \in FetchIds : fetches[f].pc = "idle"
  /\ hyd.pc # "wait"

SameInBothLayers(batch) ==
  /\ batch.id \in DOMAIN db
  /\ db[batch.id].status = batch.status
  /\ db[batch.id].progress = batch.progress
  /\ db[batch.id].lastError = batch.lastError
  /\ db[batch.id].report = batch.report

\* C7: whenever no operation is in progress the Batch State Container and the
\* Local Record Store hold the same batch ids, and every batch has the same
\* status, progress, last error and report in both.
C7_LayersAgreeWhenIdle ==
  Quiescent => /\ StoreIds(batches) = DOMAIN db
               /\ \A i \in 1..Len(batches) : SameInBothLayers(batches[i])

\* An upload request for batch b is on its way.
UploadInFlight(b) == \E j \in JobIds : jobs[j].b = b /\ jobs[j].pc = "await"

\* C8: a batch submitted while offline is stored as pending and, for as long
\* as the client stays offline, no operation sends an upload request for it.
C8_NoUploadWhileOffline ==
  \A b \in heldOffline :
    /\ b \in DOMAIN db => db[b].status = "pending"
    /\ ~UploadInFlight(b)

\* The step sends the upload request of submit call j.
SubmitSendsUpload(j) ==
  jobs'[j].kind = "submit" /\ jobs[j].pc # "await" /\ jobs'[j].pc = "await"

\* C10: submit sends the upload request of a batch only after the record and
\* the file blobs are in the Local Record Store and the batch is in the Batch
\* State Container, whatever other submissions are under way.
C10_PersistBeforeUpload ==
  [][\A j \in JobIds :
       SubmitSendsUpload(j)
         => /\ jobs'[j].b \in DOMAIN db
            /\ jobs'[j].b \in DOMAIN blobs /\ blobs[jobs'[j].b] = FilesOf(jobs'[j].b)
            /\ InStore(batches, jobs'[j].b)]_vars

\* Two submissions interleave: the upload request of one is on its way while
\* the other has persisted its batch and not yet sent its own.
C10_Witness ==
  \E j, k \in JobIds :
    /\ jobs[j].kind = "submit" /\ jobs[j].pc = "await"
    /\ jobs[k].kind = "submit" /\ jobs[k].pc = "procW"
    /\ InStore(batches, jobs[j].b) /\ InStore(batches, jobs[k].b)

\* The synchronisation pass that the reconnect effect started.
ReconnectPass(j) == jobs[j].kind = "sync" /\ jobs[j].cancel # "none"

\* The reconnect pass has marked b as processing and is about to upload it.
MarkedProcessing(b) ==
  \E j \in JobIds :
    /\ ReconnectPass(j) /\ jobs[j].b = b /\ jobs[j].pc = "procW"
    /\ InStore(batches, b) => BatchOf(batches, b).status = "processing"

\* The upload of b by the reconnect pass has ended and its outcome, the status
\* the backend returned or failed, is in the store.
OutcomeApplied(b) ==
  \E j \in JobIds :
    /\ ReconnectPass(j) /\ jobs[j].b = b /\ jobs[j].pc = "finalW"
    /\ (InStore(batches, b) /\ jobs[j].wr # <<>>)
         => /\ BatchOf(batches, b).status = jobs[j].wr[1].status
            /\ BatchOf(batches, b).status \in {"processing", "completed", "failed"}

\* C9: every batch that is pending locally when connectivity returns is
\* uploaded with no action of the user: it is marked processing, and then
\* the status the backend returned, or failed, is applied.
C9_PendingEventuallyUploaded ==
  \A b \in BatchIds :
    /\ (b \in owed) ~> MarkedProcessing(b)
    /\ MarkedProcessing(b) ~> OutcomeApplied(b)

\* Two batches were pending when connectivity returned; the reconnect pass
\* uploaded both, and the backend's answer for the second is in the store.
C9_Witness ==
  \E j \in JobIds :
    /\ ReconnectPass(j) /\ jobs[j].pc = "finalW" /\ jobs[j].wr # <<>> /\ jobs[j].queue = <<>>
    /\ Cardinality(DOMAIN db) = 2
    /\ \A b \in DOMAIN db : db[b].status # "pending"
    /\ InStore(batches, jobs[j].b)
    /\ BatchOf(batches, jobs[j].b).status = srv[jobs[j].b].status
    /\ jobs[j].wr[1].status = srv[jobs[j].b].status

\* The step in which the persistBatch of submit call j rejects: the call was
\* awaiting it and did not go on to the code after it.
PersistFails(j) ==
  /\ jobs[j].kind = "submit" /\ jobs[j].pc = "persist"
  /\ jobs'[j].pc \notin {"persist", "procW", "reload"}

\* C11: when persisting the new batch fails during submit, the call ends with
\* the error (it runs none of the code after the await), the batch is not in
\* the Batch State Container, neither its record nor a blob of it is in the
\* Local Record Store, and no upload request for it was or is sent.
C11_PersistFailureLeavesNothing ==
  [][\A j \in JobIds :
       PersistFails(j)
         => /\ jobs'[j] = IdleJob
            /\ ~InStore(batches', jobs[j].b)
            /\ jobs[j].b \notin DOMAIN db'
            /\ jobs[j].b \notin DOMAIN blobs'
            /\ ~srv'[jobs[j].b].known
            /\ \A k \in JobIds : jobs'[k].b # jobs[j].b]_vars

\* The first submission failed to persist: an id was handed out, two doings
\* of the environment (the drop of the files, the storage fault) have
\* happened, and nothing is stored and no call runs.
C11_Witness ==
  /\ nextId = 2 /\ ops = 2 /\ online
  /\ db = <<>> /\ blobs = <<>> /\ batches = <<>>
  /\ \A j \in JobIds : jobs[j] = IdleJob
  /\ \A b \in BatchIds : ~srv[b].known

\* The step in which the upload request of call j rejects: the call was
\* awaiting the answer and its catch block ran.  An answer leaves the
\* environment's count alone and needs a backend that got the request.
UploadFails(j) ==
  /\ jobs[j].pc = "await" /\ jobs'[j].pc = "finalW"
  /\ (Unreachable(j) \/ ops' = ops + 1)

\* The step in which the record merge of the catch block is put.
FailureWritten(j) ==
  /\ jobs[j].pc = "finalW" /\ jobs'[j].pc # "finalW"
  /\ jobs[j].wr # <<>> /\ jobs[j].wr[1].lastError # NoError

FriendlyMessages == {KNOWN_MESSAGES.network, KNOWN_MESSAGES.timeout, KNOWN_MESSAGES.default}

PassOf(job) == IF job.b = NoBatch THEN job.queue ELSE <<job.b>> \o job.queue

\* The position of a pass within the loop body of the batch it is at.
PcRank(pc) ==
  CASE pc = "procW" -> 1 [] pc = "await" -> 2 [] pc = "append" -> 3
    [] pc = "progW" -> 4 [] pc = "finalW" -> 5 [] OTHER -> 6

\* C13: one pass of synchronizePendingBatches takes the batches that were
\* pending or failed in the Local Record Store when it started, one at a
\* time and in order; within a batch it only moves forward (through the
\* entries of the answer's timeline one by one), so it sends one upload
\* request for it; it leaves a batch only when the outcome or the failure of
\* its upload was applied, and then goes to the next one.
C13_PassUploadsEachOnce ==
  [][\A j \in JobIds :
       /\ (jobs[j].kind # "sync" /\ jobs'[j].kind = "sync")
            => PassOf(jobs'[j]) = PendingIds(db')
       /\ (jobs[j].kind = "sync" /\ jobs'[j] # jobs[j] /\ jobs[j].pc # "reload"
              /\ jobs'[j].cancel = jobs[j].cancel)
            => \/ /\ PassOf(jobs'[j]) = PassOf(jobs[j])
                  /\ \/ PcRank(jobs'[j].pc) > PcRank(jobs[j].pc)
                     \/ /\ jobs[j].pc = "append" /\ jobs'[j].pc = "append"
                        /\ Len(jobs'[j].tl) < Len(jobs[j].tl)
                  /\ jobs'[j].pc # "reload"
               \/ /\ jobs[j].pc = "finalW"
                  /\ PassOf(jobs'[j]) = Tail(PassOf(jobs[j]))
                  /\ jobs'[j].pc = IF PassOf(jobs'[j]) = <<>> THEN "reload" ELSE "procW"]_vars

\* A pass went on after a failure: it is uploading its second batch while the
\* first one, more recent, is failed with a friendly message.
C13_Witness ==
  \E j \in JobIds :
    /\ jobs[j].kind = "sync" /\ jobs[j].pc = "await" /\ jobs[j].b = 1 /\ jobs[j].queue = <<>>
    /\ 2 \in DOMAIN db /\ db[2].status = "failed" /\ db[2].lastError \in FriendlyMessages

\* The step is removeBatch for batch b: no call moves, and b leaves one of
\* the layers.
RemoveStep(b) ==
  /\ jobs' = jobs /\ handlers' = handlers /\ fetches' = fetches
  /\ \/ b \in DOMAIN db /\ b \notin DOMAIN db'
     \/ b \in DOMAIN blobs /\ b \notin DOMAIN blobs'
     \/ InStore(batches, b) /\ ~InStore(batches', b)

\* The step in which persistBatch of a submit call commits.
PersistStep == \E j \in JobIds : jobs[j].pc = "persist" /\ jobs'[j].pc \in {"procW", "reload"}

\* C14: every retry transmits exactly the blobs that were persisted when the
\* batch was submitted, and no step other than the persisting of a submit
\* and removeBatch adds, removes or replaces blobs.
C14_RetrySendsPersistedBlobs ==
  [][/\ blobs' # blobs => (PersistStep \/ \E b \in BatchIds : RemoveStep(b))
     /\ \A j \in JobIds :
          (jobs[j].kind = "retry" /\ jobs[j].pc = "procW" /\ jobs'[j].pc = "await")
            => jobs'[j].files = FilesOf(jobs[j].b)]_vars

\* C15: retryBatch for a batch whose record or whose blobs are no longer in
\* the Local Record Store returns at once; a retry call that goes past its
\* check, marks the batch and goes on to upload has found both.
C15_RetryNeedsRecordAndBlobs ==
  [][\A j \in JobIds :
       (jobs[j].kind = "idle" /\ jobs'[j].kind = "retry")
         => /\ jobs'[j].b \in DOMAIN db
            /\ jobs'[j].b \in DOMAIN blobs /\ blobs[jobs'[j].b] # {}]_vars

\* C16: when removeBatch(b) completes, neither the record nor a blob of b is
\* in the Local Record Store, the Batch State Container holds no batch b,
\* and every other batch, record and blob set is as before.
C16_RemoveDeletesOnlyThatBatch ==
  [][\A b \in BatchIds :
       RemoveStep(b)
         => /\ b \notin DOMAIN db' /\ b \notin DOMAIN blobs' /\ ~InStore(batches', b)
            /\ \A c \in BatchIds \ {b} :
                 /\ (c \in DOMAIN db') = (c \in DOMAIN db)
                 /\ c \in DOMAIN db => db'[c] = db[c]
                 /\ (c \in DOMAIN blobs') = (c \in DOMAIN blobs)
                 /\ c \in DOMAIN blobs => blobs'[c] = blobs[c]
                 /\ Find(batches', c) = Find(batches, c)]_vars

\* A batch that had been uploaded was removed while another one stays, whole,
\* in both layers.
C16_Witness ==
  \E b, c \in BatchIds :
    /\ b # c /\ srv[b].known
    /\ b \notin DOMAIN db /\ b \notin DOMAIN blobs /\ ~InStore(batches, b)
    /\ \A j \in JobIds : jobs[j].b # b
    /\ c \in DOMAIN db /\ c \in DOMAIN blobs /\ blobs[c] = FilesOf(c) /\ InStore(batches, c)

IsSortedByTs(timeline) ==
  \A p, q \in 1..Len(timeline) : p < q => timeline[p].ts <= timeline[q].ts

\* C17: in every reachable state every timeline of the Batch State Container
\* is sorted ascending by timestamp.
C17_TimelinesSorted == \A i \in 1..Len(batches) : IsSortedByTs(batches[i].timeline)

\* An event older than the "client:queued" entry came later and stands
\* before it; a third entry follows.
C17_Witness ==
  \E i \in 1..Len(batches) :
    /\ Len(batches[i].timeline) = 3
    /\ batches[i].timeline[1].ts < CreatedTs
    /\ \E p \in 2..3 : batches[i].timeline[p].id = CreatedId(batches[i].id)

\* C18: timeline entries only accumulate: an entry of a batch's timeline in
\* the Batch State Container is still there, unchanged, after every step
\* that keeps the batch.
C18_EntriesOnlyAccumulate ==
  [][\A b \in BatchIds :
       (InStore(batches, b) /\ InStore(batches', b))
         => \A p \in 1..Len(BatchOf(batches, b).timeline) :
              \E q \in 1..Len(BatchOf(batches', b).timeline) :
                BatchOf(batches', b).timeline[q] = BatchOf(batches, b).timeline[p]]_vars

\* Applying entry e to batch x by addTimelineEntry, and by a timeline merge.
AddThen(x, e) == TimelineAdd(x, e)
MergeThen(x, e) ==
  [x EXCEPT !.timeline = mergeTimelines(x.timeline, <<e>>),
            !.progress = IF e.progress # NoProgress THEN Max(x.progress, e.progress)
                         ELSE x.progress]

\* C19: for two distinct stage events A and B applied to the same batch, by
\* addTimelineEntry or by a timeline merge, A then B and B then A give the
\* same timeline, entry for entry in the same order, and the same progress.
C19_StageEventsCommute ==
  \A A, B \in StageEvents :
    A.id # B.id
      => LET x == batches[1]
         IN /\ AddThen(AddThen(x, A), B).timeline = AddThen(AddThen(x, B), A).timeline
            /\ AddThen(AddThen(x, A), B).progress = AddThen(AddThen(x, B), A).progress
            /\ MergeThen(MergeThen(x, A), B).timeline = MergeThen(MergeThen(x, B), A).timeline
            /\ MergeThen(MergeThen(x, A), B).progress = MergeThen(MergeThen(x, B), A).progress

\* The field f of an insights object, none when the object is absent.
InsightOf(insights, f) == IF insights = NoInsights THEN NoValue ELSE insights[1][f]

NamesOf(files) == {files[i].name : i \in 1..Len(files)}
EntryNamed(files, name) == SelectSeq(files, LAMBDA x : x.name = name)
OptionalFileKeys == {"checksum", "storedPath", "metadata"}

\* C21: a hydration merge of file lists yields exactly one entry per file
\* name known to either side, and every field that the local entry of a file
\* held before the merge (a checksum, storage path or metadata map of an
\* earlier fetch included) is still held, with a value, after it.
C21_MergeFilesKeepsKnownFields ==
  [][\A files \in FileResponses :
       FilesHydrate(files) =>
         LET old == BatchOf(batches, 1).files
             new == BatchOf(batches', 1).files
         IN /\ NamesOf(new) = NamesOf(old) \cup {files[i].filename : i \in 1..Len(files)}
            /\ \A n \in NamesOf(new) : Len(EntryNamed(new, n)) = 1
            /\ \A i \in 1..Len(old) :
                 LET kept == EntryNamed(new, old[i].name)[1]
                 IN \A k \in DOMAIN old[i] :
                      /\ k \in DOMAIN kept
                      /\ (k \in OptionalFileKeys /\ old[i][k] # NoValue) => kept[k] # NoValue]_vars

\* C22: after a successful hydration fetch, a batch that has an insights
\* bundle has it stamped with the time of that fetch, also when the fetched
\* response carries no insights.
C22_SyncedAtRefreshedByFetch ==
  [][\A response \in TimedResponses :
       TimedArrive(response) =>
         LET insights == BatchOf(batches', 1).insights
         IN insights # NoInsights => insights[1].syncedAt = toISOString(DateNow(ops))]_vars

\* A fetch of the hydrator is sent in this step.
TimedFetchStarts == fetches[1].pc # "fly" /\ fetches'[1].pc = "fly"

\* C23: the hydrator does not fetch a batch again before 60 s have passed
\* since its last successful fetch: the batch it fetches was never synced, or
\* was synced more than HYDRATION_INTERVAL_MS ago.
C23_NoRefetchBeforeStale ==
  [][TimedFetchStarts =>
       LET batch == BatchOf(batches, fetches'[1].b)
       IN \/ batch.syncedAt = NoValue
          \/ DateNow(ops) - DateParse(batch.syncedAt) > HYDRATION_INTERVAL_MS]_vars

\* The running calls of syncBatchFromServer made by the hydrator that wait
\* for their detail response.
FetchesInProgress == {f \in FetchIds : fetches[f].pc = "fly"}

\* C24: the hydrator fetches one candidate at a time: in every reachable
\* state at most one hydration fetch, over all batches, is in progress.
C24_OneFetchAtATime == Cardinality(FetchesInProgress) <= 1

\* No call of syncBatchFromServer is made by the hydrator in this step.
NoFetchStarted ==
  \A f \in FetchIds :
    fetches'[f].pc = "fly" => (fetches[f].pc = "fly" /\ fetches'[f].b = fetches[f].b)

C26_UnavailableIsTerminal ==
  [][~listener.available =>
       (~listener'.available /\ listener'.source \notin {"connecting", "open"})]_vars

\* C27: a malformed message (unparseable, without batch id, or with a stage
\* descriptor that lacks a required field) changes neither the Batch State
\* Container nor the Local Record Store nor the listener's connection state,
\* and a well-formed stage message delivered on the open stream, before or
\* after it, has its entry in the batch's timeline.
C27_MalformedMessageIgnored ==
  [][/\ \A m \in MalformedMessages :
          ListenerMessage(m) => (batches' = batches /\ db' = db /\ listener' = listener)
     /\ \A m \in WellFormedMessages :
          (ListenerMessage(m) /\ m.stage # 0) =>
            HasId(BatchOf(batches', m.b).timeline, StageEntry(m).id)]_vars

\* The texts that a failed request carries: the message of the error, the
\* body of the response, and the message parseApiError makes of them.
RawErrorTexts ==
  UNION {{e.message, e.data, parseApiError(e).message} : e \in TransportErrors} \ {"none"}

\* No batch of either layer, and no record about to be put by the Upload
\* Submitter, holds a raw error text.
NoRawErrorText ==
  /\ \A i \in 1..Len(batches) : batches[i].lastError \notin RawErrorTexts
  /\ \A b \in DOMAIN db : db[b].lastError \notin RawErrorTexts
  /\ \A j \in JobIds : jobs[j].wr # <<>> => jobs[j].wr[1].lastError \notin RawErrorTexts

\* C28: the last error that submit, retry and synchronizePending write after
\* a failed upload request is one of the three fixed messages, in the Batch
\* State Container and in the record they put; no raw error text is ever
\* held by a batch.
C28_OnlyFriendlyErrorsStored ==
  [][/\ \A j \in JobIds :
          UploadFails(j) =>
            /\ InStore(batches', jobs[j].b)
                 => BatchOf(batches', jobs[j].b).lastError \in FriendlyMessages
            /\ jobs'[j].wr # <<>> => jobs'[j].wr[1].lastError \in FriendlyMessages
     /\ NoRawErrorText']_vars

\* A request that the backend answered with an error was normalised to the
\* generic message, which both layers hold.
C28_Witness ==
  \E b \in DOMAIN db :
    /\ InStore(batches, b)
    /\ srv[b].known
    /\ BatchOf(batches, b).lastError = KNOWN_MESSAGES.default
    /\ db[b].lastError = KNOWN_MESSAGES.default

\* The step merges into the store the detail response of fetch f, which says
\* failed, for a batch that the store has as processing and that has a record.
FailedFetchOfProcessing(f) ==
  /\ IsHydrationMerge(f)
  /\ fetches[f].snap.status = "failed"
  /\ InStore(batches, fetches[f].b)
  /\ BatchOf(batches, fetches[f].b).status = "processing"
  /\ fetches[f].b \in DOMAIN db

\* The step puts the record merge of a detail response that says failed.
FailedFetchWritten(f) ==
  /\ fetches[f].pc = "write" /\ fetches'[f].pc # "write"
  /\ fetches[f].snap.status = "failed"
  /\ fetches[f].wr # <<>>

ListenerMergePut(h) == handlers[h].pc = "w" /\ handlers'[h].pc # "w"

\* C30: the record merge changes, on a batch the Local Record Store knows,
\* only the fields of the partial update, and leaves the other fields of the
\* record and all other records as they are; on a batch it does not know it
\* writes nothing.  (Stated on the merges of the listener, whose partial
\* update is part of the state.)
C30_RecordMergeTouchesOnlyPartial ==
  [][\A h \in HandlerIds :
       ListenerMergePut(h) =>
         LET b == handlers[h].m.b
             partial == EventUpdates(handlers[h].m)
         IN /\ \A x \in DOMAIN db \ {b} : x \in DOMAIN db' /\ db'[x] = db[x]
            /\ IF b \in DOMAIN db
               THEN /\ b \in DOMAIN db'
                    /\ \A field \in DOMAIN db[b] :
                         db'[b][field] = IF field \in DOMAIN partial THEN partial[field]
                                         ELSE db[b][field]
               ELSE db' = db]_vars

\* The step is one of the three update channels at work: a call of the
\* submitter, the listener or the hydrator moves, and it is neither the
\* caller's reload of the store nor removeBatch.
ChannelStep ==
  /\ jobs' # jobs \/ handlers' # handlers \/ fetches' # fetches
  /\ ~IsReloadStep

\* C31: no update of the three channels changes the id of a batch: a batch
\* that is in the Batch State Container under id b before an upload
\* response, a message of the event stream or a hydration merge is applied
\* is there under id b afterwards, at the same place, and a record of the
\* Local Record Store stays under its key and carries the key as its id.
C31_IdsAreStable ==
  [][ChannelStep =>
       /\ \A i \in 1..Len(batches) :
            \E k \in 1..Len(batches') :
              /\ batches'[k].id = batches[i].id
              /\ Len(batches') - k = Len(batches) - i
       /\ \A b \in DOMAIN db : b \in DOMAIN db'
       /\ \A b \in DOMAIN db' : db'[b].id = b]_vars

\* The merge of a detail response for a batch of both layers has been
\* applied to the store and is about to be put into the record, after a
\* message of the event stream was applied to the same batch.
C31_Witness ==
  \E f \in FetchIds, h \in HandlerIds :
    /\ fetches[f].pc = "write" /\ fetches[f].wr # <<>>
    /\ fetches[f].wr[1].id = fetches[f].b
    /\ InStore(batches, fetches[f].b)
    /\ handlers[h].last.b = fetches[f].b

\* The step in which retryBatch is called (call j starts) and marks the batch.
RetryMarks(j) == jobs[j].kind = "idle" /\ jobs'[j].kind = "retry"

\* The step in which the retry call j has put its record merge and sends the
\* upload request.
RetrySendsUpload(j) == jobs[j].kind = "retry" /\ jobs[j].pc = "procW" /\ jobs'[j].pc = "await"

Compared(batch) ==
  [status |-> batch.status, progress |-> batch.progress, lastError |-> batch.lastError,
   report |-> batch.report, timeline |-> batch.timeline]

\* C33: for one pending or failed batch and the same response of the
\* backend, synchronizePendingBatches leaves the Batch State Container and
\* the Local Record Store with the status, progress, last error, report and
\* timeline that retryBatch leaves.
C33_SyncLeavesWhatRetryLeaves ==
  [][(jobs[1].kind = "idle" /\ jobs'[1].kind = "sync" /\ jobs'[1].rstatus # NoStatus) =>
       LET retry == RunPass("retry", batches, db, 1, srv[1], NoTransportError)
       IN /\ Compared(BatchOf(batches', 1)) = Compared(BatchOf(retry.store, 1))
          /\ Compared(db'[1]) = Compared(retry.db[1])]_vars

\* The step is onmessage for a well-formed payload with a report locator and
\* no report hash.
LocatorOnlyMessage ==
  \E m \in WellFormedMessages : m.report = ReportWithoutHash /\ ListenerMessage(m)

\* C34: a message of the event stream that carries a report locator and no
\* report hash leaves a report hash that is known for the batch in place:
\* after it is applied the batch has the hash it had, in the Batch State
\* Container and in the Local Record Store.
C34_LocatorKeepsKnownHash ==
  [][LocatorOnlyMessage =>
       /\ BatchOf(batches, 1).report = "hash" => BatchOf(batches', 1).report = "hash"
       /\ db[1].report = "hash" => db'[1].report = "hash"]_vars

\* The step is a run of retryBatch or synchronizePendingBatches whose upload
\* request timed out: axios rejects with the code ECONNABORTED.
UploadTimesOut ==
  \E kind \in {"retry", "sync"}, error \in TransportErrors :
    error.code = "ECONNABORTED" /\ PassRun(kind, error)

\* C35: an upload whose request timed out (ECONNABORTED) leaves the batch
\* failed with the message KNOWN_MESSAGES.timeout as its last error, in the
\* Batch State Container and in the Local Record Store.
C35_TimeoutStoredAsTimeout ==
  [][UploadTimesOut =>
       /\ BatchOf(batches', 1).status = "failed"
       /\ BatchOf(batches', 1).lastError = KNOWN_MESSAGES.timeout
       /\ db'[1].lastError = KNOWN_MESSAGES.timeout]_vars

\* C36: at no time are two upload requests for the same batch in flight: two
\* running calls of the submitter (two synchronisation passes, or a pass and
\* a retry) never both await the answer to an upload of the same batch.
C36_OneUploadPerBatch ==
  \A i, j \in JobIds :
    (i # j /\ jobs[i].pc = "await" /\ jobs[j].pc = "await") => jobs[i].b # jobs[j].b

\* The step applies the outcome of an answered upload request of call j to
\* the store: updateStatus(normalizedStatus, ...), with no error to record.
ResponseOutcomeApplied(j) ==
  /\ jobs[j].kind \in {"submit", "retry"}
  /\ jobs[j].pc \in {"await", "append", "progW"} /\ jobs'[j].pc = "finalW"
  /\ jobs'[j].wr # <<>> /\ jobs'[j].wr[1].lastError = NoError

\* C37: when the event stream or a hydration merge has set a batch to
\* completed while submitFiles or retryBatch awaits the answer to its upload
\* request, applying the answer afterwards leaves the status completed, in
\* the Batch State Container and in the record merge it goes on to put.
C37_ResponseKeepsCompleted ==
  [][\A j \in JobIds :
       (/\ ResponseOutcomeApplied(j)
        /\ InStore(batches, jobs[j].b)
        /\ BatchOf(batches, jobs[j].b).status = "completed")
         => /\ BatchOf(batches', jobs[j].b).status = "completed"
            /\ jobs'[j].wr[1].status = "completed"]_vars

\* removeBatch(b) has completed: the backend knows b, so b was persisted with
\* its files and posted, and record, files and store entry are gone.
Removed(b) ==
  /\ srv[b].known
  /\ b \notin DOMAIN db /\ b \notin DOMAIN blobs /\ ~InStore(batches, b)

\* The step completes part of a call that is in flight for batch b: a detail
\* request of the hydrator, a message being handled by the listener, or an
\* upload request of the submitter.
FetchCompletes(b) ==
  \E f \in FetchIds :
    fetches[f].b = b /\ fetches[f].pc \in {"fly", "write"} /\ fetches'[f] # fetches[f]
MessageCompletes(b) ==
  \E h \in HandlerIds :
    handlers[h].m.b = b /\ handlers[h].pc \in {"w", "a"} /\ handlers'[h] # handlers[h]
UploadCompletes(b) ==
  \E j \in JobIds :
    /\ jobs[j].b = b /\ jobs[j].pc \in {"await", "append", "progW", "finalW"}
    /\ jobs'[j] # jobs[j]

\* C38: once removeBatch(b) has completed, no completion of a hydration
\* fetch, of the handling of an event-stream message or of an upload that
\* was in flight for b puts a batch with id b back into the Batch State
\* Container or the Local Record Store.
C38_RemovedStaysRemoved ==
  [][\A b \in BatchIds :
       (Removed(b) /\ (FetchCompletes(b) \/ MessageCompletes(b) \/ UploadCompletes(b)))
         => ~InStore(batches', b) /\ b \notin DOMAIN db']_vars

\* The step puts the record merge that call j of the submitter read for its
\* mergePersisted(batch.id, { progress: latestProgress }).
ProgressMergePut(j) ==
  jobs[j].pc = "progW" /\ jobs'[j].pc # "progW" /\ jobs[j].wr # <<>>

\* The listener's call h has put its record merge of a status for the batch
\* of call j after call j read the record: the record has the status of the
\* message handled last, and the record that call j read has not.
StatusMergedSinceRead(h, j) ==
  /\ handlers[h].pc = "idle"
  /\ handlers[h].last.b = jobs[j].b /\ handlers[h].last.status # NoStatus
  /\ jobs[j].b \in DOMAIN db
  /\ db[jobs[j].b].status = handlers[h].last.status
  /\ jobs[j].wr[1].status # handlers[h].last.status

\* C39: when the listener's record merge of a status and the submitter's
\* record merge of a progress for the same batch overlap (the submitter read
\* the record before the listener put its merge, and puts its own after
\* it), the stored record afterwards has both the status of the message and
\* the progress of the submitter.
C39_OverlappingMergesKeepBoth ==
  [][\A j \in JobIds, h \in HandlerIds :
       (ProgressMergePut(j) /\ StatusMergedSinceRead(h, j))
         => /\ db'[jobs[j].b].status = handlers[h].last.status
            /\ db'[jobs[j].b].progress = jobs[j].latest]_vars

\* C40: under any sequence of calls of setBatches, upsertBatch, mergeBatch,
\* updateStatus, addTimelineEntry, setProgress and removeBatch the Batch
\* State Container never holds two batches with the same id; upsertBatch of
\* an id that is in the container replaces that batch by the item, puts it
\* first and leaves the others in their order; and mergeBatch, updateStatus,
\* addTimelineEntry, setProgress and removeBatch called with an id that is
\* not in the container leave the whole collection as it is.
C40_StoreKeepsIdsUnique ==
  [][/\ \A i, k \in 1..Len(batches') : batches'[i].id = batches'[k].id => i = k
     /\ \A item \in {createBatch(b, st) : b \in BatchIds, st \in {"pending", "uploading"}} :
          (CallUpsertBatch(item) /\ InStore(batches, item.id))
            => /\ batches'[1] = ensureProgress(item)
               /\ Len(batches') = Len(batches)
               /\ FilterOut(batches', item.id) = FilterOut(batches, item.id)
     /\ \A op \in {"mergeBatch", "updateStatus", "addTimelineEntry", "setProgress",
                    "removeBatch"}, id \in BatchIds :
          (CallMutation(op, id) /\ ~InStore(batches, id)) => batches' = batches]_vars

\* setProgress was called last, with an id that is not in the container,
\* which holds another batch that an earlier call has changed.
C40_Witness ==
  /\ jobs[1].kind = "setProgress" /\ jobs[1].b = 2
  /\ Len(batches) = 1 /\ batches[1].id = 1 /\ batches[1].status = "completed"

====
